---- MODULE Spec2Model ----
(***************************************************************************)
(* Compliance pipeline of Rizz Ads: the retry helper and error utilities   *)
(* (utils/error-handler.ts), the AI analyzer (compliance-ai.service.ts),   *)
(* the pattern validator (compliance-validator.service.ts) and the         *)
(* orchestrator (services/compliance.service.ts).                          *)
(*                                                                         *)
(* A string is a sequence of one-character strings, so that concatenation, *)
(* join and includes are computed on characters.  An ad copy is a rope     *)
(* [chars, rep] standing for chars repeated rep times, which keeps a text  *)
(* longer than the 5000-character limit small in the state.                *)
(***************************************************************************)
EXTENDS Integers, Sequences, FiniteSets, TLC

\* ------------------------------------------------------------------ bounds

\* Largest maxRetries handed to retryWithBackoff by the direct caller.
MaxRetriesBound == 3

\* Largest number of requests in one batchCheckCompliance call.
MaxBatch == 2

\* Largest number of locale and platform combinations of one
\* compareCompliance call.
MaxCombinations == 4

\* ------------------------------------------------------------------- state

VARIABLES
    entry,      \* the operation the caller invokes
    args,       \* the arguments of a direct retryWithBackoff call
    requests,   \* the request list of the check or batch call
    task,       \* the tasks, one per member check (task 1 alone otherwise)
    results,    \* the promise batchCheckCompliance returns
    settled,    \* the tasks in the order in which they settled (history)
    issuesArg,  \* the argument of the aggregation call
    aggregate   \* its result

vars == <<entry, args, requests, task, results, settled, issuesArg, aggregate>>

Tasks == 1..(IF MaxBatch > MaxCombinations THEN MaxBatch ELSE MaxCombinations)

\* ----------------------------------------------------------------- strings

\* String.prototype.includes
Includes(s, sub) ==
    \E i \in 0..(Len(s) - Len(sub)) : SubSeq(s, i + 1, i + Len(sub)) = sub

\* Array.prototype.join
RECURSIVE Join(_, _)
Join(list, sep) ==
    IF list = <<>> THEN <<>>
    ELSE IF Len(list) = 1 THEN list[1]
    ELSE list[1] \o sep \o Join(Tail(list), sep)

\* 2 ** n
RECURSIVE Pow2(_)
Pow2(n) == IF n <= 0 THEN 1 ELSE 2 * Pow2(n - 1)

\* ------------------------------------------------------ utils/error-handler

\* enum ErrorCode
ErrorCode ==
    { "VALIDATION_ERROR", "NOT_FOUND", "UNAUTHORIZED", "FORBIDDEN",
      "RATE_LIMIT_EXCEEDED", "EXTERNAL_API_ERROR", "COMPLIANCE_VIOLATION",
      "GENERATION_FAILED", "INTERNAL_ERROR" }

\* the errorMessages table of createError
errorMessages(code) ==
    CASE code = "VALIDATION_ERROR"     -> "BAD_REQUEST"
      [] code = "NOT_FOUND"            -> "NOT_FOUND"
      [] code = "UNAUTHORIZED"         -> "UNAUTHORIZED"
      [] code = "FORBIDDEN"            -> "FORBIDDEN"
      [] code = "RATE_LIMIT_EXCEEDED"  -> "TOO_MANY_REQUESTS"
      [] code = "EXTERNAL_API_ERROR"   -> "INTERNAL_SERVER_ERROR"
      [] code = "COMPLIANCE_VIOLATION" -> "BAD_REQUEST"
      [] code = "GENERATION_FAILED"    -> "INTERNAL_SERVER_ERROR"
      [] code = "INTERNAL_ERROR"       -> "INTERNAL_SERVER_ERROR"
      [] OTHER                         -> "INTERNAL_SERVER_ERROR"

\* A thrown value: cls is the class the instanceof tests see ("ORPCError",
\* "Error", "string" for a thrown non-Error, "undefined"), code is
\* ORPCError.code, message is Error.message.
Thrown(cls, code, message) == [cls |-> cls, code |-> code, message |-> message]

\* the value of an unassigned let (lastError before any failure)
Undefined == Thrown("undefined", "", <<>>)

\* error instanceof ORPCError
IsORPCError(error) == error.cls = "ORPCError"

\* error instanceof Error (ORPCError extends Error)
IsError(error) == error.cls \in {"ORPCError", "Error"}

createError(code, message) == Thrown("ORPCError", errorMessages(code), message)

handleValidationError(errors, context) ==
    createError("VALIDATION_ERROR",
        IF context # <<>>
        THEN <<"V", "a", "l", "i", "d", "a", "t", "i", "o", "n", " ", "f", "a", "i", "l", "e", "d", " ", "f", "o", "r", " ">> \o context \o <<":", " ">> \o Join(errors, <<",", " ">>)
        ELSE <<"V", "a", "l", "i", "d", "a", "t", "i", "o", "n", " ", "f", "a", "i", "l", "e", "d", ":", " ">> \o Join(errors, <<",", " ">>))

handleGenerationError(error, stage) ==
    IF IsError(error)
    THEN createError("GENERATION_FAILED",
             <<"A", "d", " ", "g", "e", "n", "e", "r", "a", "t", "i", "o", "n", " ", "f", "a", "i", "l", "e", "d", " ", "a", "t", " ">> \o stage \o <<":", " ">> \o error.message)
    ELSE createError("GENERATION_FAILED", <<"A", "d", " ", "g", "e", "n", "e", "r", "a", "t", "i", "o", "n", " ", "f", "a", "i", "l", "e", "d", " ", "a", "t", " ">> \o stage)

retryableCodes == { "TOO_MANY_REQUESTS", "TIMEOUT", "INTERNAL_SERVER_ERROR" }

\* isRetryableError that retries network errors only
isRetryableError_NetworkOnly(error) ==
    IF IsError(error) /\ ~IsORPCError(error)
    THEN \/ Includes(error.message, <<"E", "C", "O", "N", "N", "R", "E", "S", "E", "T">>)
         \/ Includes(error.message, <<"E", "T", "I", "M", "E", "D", "O", "U", "T">>)
         \/ Includes(error.message, <<"E", "N", "O", "T", "F", "O", "U", "N", "D">>)
    ELSE FALSE

isRetryableError(error) ==
    IF IsORPCError(error) THEN error.code \in retryableCodes
    ELSE IF IsError(error)
         THEN \/ Includes(error.message, <<"E", "C", "O", "N", "N", "R", "E", "S", "E", "T">>)
              \/ Includes(error.message, <<"E", "T", "I", "M", "E", "D", "O", "U", "T">>)
              \/ Includes(error.message, <<"E", "N", "O", "T", "F", "O", "U", "N", "D">>)
         ELSE FALSE

\* ------------------------------------------------ failures of the callback

\* What the callback handed to retryWithBackoff may throw.  signal says what
\* the failure stands for; the code never reads it.  The first nine are the
\* errors createError builds, one per ErrorCode.
Failure(signal, error) == [signal |-> signal, error |-> error]

CreatedFailures ==
    { Failure("client_error",      createError("VALIDATION_ERROR", <<"b", "a", "d", " ", "i", "n", "p", "u", "t">>)),
      Failure("client_error",      createError("NOT_FOUND", <<"n", "o", "t", " ", "f", "o", "u", "n", "d">>)),
      Failure("client_error",      createError("UNAUTHORIZED", <<"n", "o", " ", "s", "e", "s", "s", "i", "o", "n">>)),
      Failure("client_error",      createError("FORBIDDEN", <<"f", "o", "r", "b", "i", "d", "d", "e", "n">>)),
      Failure("rate_limit",        createError("RATE_LIMIT_EXCEEDED", <<"s", "l", "o", "w", " ", "d", "o", "w", "n">>)),
      Failure("external_api",      createError("EXTERNAL_API_ERROR", <<"a", "p", "i", " ", "f", "a", "i", "l", "e", "d">>)),
      Failure("client_error",      createError("COMPLIANCE_VIOLATION", <<"v", "i", "o", "l", "a", "t", "i", "o", "n">>)),
      Failure("generation_failed", createError("GENERATION_FAILED", <<"n", "o", " ", "o", "b", "j", "e", "c", "t">>)),
      Failure("internal_error",    createError("INTERNAL_ERROR", <<"b", "u", "g">>)) }

TransportFailures ==
    { Failure("timeout",    Thrown("ORPCError", "TIMEOUT", <<"t", "i", "m", "e", "d", " ", "o", "u", "t">>)),
      Failure("conn_reset", Thrown("Error", "", <<"r", "e", "a", "d", " ", "E", "C", "O", "N", "N", "R", "E", "S", "E", "T">>)),
      Failure("timeout",    Thrown("Error", "", <<"c", "o", "n", "n", "e", "c", "t", " ", "E", "T", "I", "M", "E", "D", "O", "U", "T">>)),
      Failure("dns",        Thrown("Error", "", <<"g", "e", "t", "a", "d", "d", "r", "i", "n", "f", "o", " ", "E", "N", "O", "T", "F", "O", "U", "N", "D">>)) }

OtherFailures ==
    { Failure("schema_mismatch", Thrown("Error", "", <<"r", "e", "s", "p", "o", "n", "s", "e", " ", "d", "i", "d", " ", "n", "o", "t", " ", "m", "a", "t", "c", "h", " ", "s", "c", "h", "e", "m", "a">>)),
      Failure("programming",     Thrown("Error", "", <<"x", " ", "i", "s", " ", "n", "o", "t", " ", "a", " ", "f", "u", "n", "c", "t", "i", "o", "n">>)),
      Failure("programming",     Thrown("string", "", <<"b", "o", "o", "m">>)) }

Failures == CreatedFailures \cup TransportFailures \cup OtherFailures

\* What generateObject may throw inside analyzeComplianceWithAI: errors of the
\* AI SDK and of the transport, never an ORPCError.
ModelFailures ==
    { f \in TransportFailures \cup OtherFailures :
        f.error.cls = "Error" /\ f.signal \in {"conn_reset", "schema_mismatch"} }

SignalOf(error) == (CHOOSE f \in Failures : f.error = error).signal

\* The signals of a transient failure.
TransientSignals == { "rate_limit", "timeout", "conn_reset", "dns" }

\* -------------------------------------------------- characters and regexes

UpperChars == <<"A", "B", "C", "D", "E", "F", "G", "H", "I", "J", "K", "L", "M", "N", "O", "P", "Q", "R", "S", "T", "U", "V", "W", "X", "Y", "Z">>
LowerChars == <<"a", "b", "c", "d", "e", "f", "g", "h", "i", "j", "k", "l", "m", "n", "o", "p", "q", "r", "s", "t", "u", "v", "w", "x", "y", "z">>
DigitChars == <<"0", "1", "2", "3", "4", "5", "6", "7", "8", "9">>

Range(seq) == { seq[i] : i \in DOMAIN seq }

ToLowerChar(c) ==
    IF c \in Range(UpperChars)
    THEN LowerChars[CHOOSE i \in DOMAIN UpperChars : UpperChars[i] = c]
    ELSE c

\* String.prototype.toLowerCase
ToLowerCase(s) == [i \in DOMAIN s |-> ToLowerChar(s[i])]

IsSpaceChar(c) == c \in {" ", "\t", "\n", "\r"}
IsWordChar(c) ==
    c \in Range(UpperChars) \cup Range(LowerChars) \cup Range(DigitChars) \cup {"_"}

\* The character classes the rule corpus uses.
InClass(cls, c) ==
    CASE cls = "\\s"      -> IsSpaceChar(c)
      [] cls = "\\d"      -> c \in Range(DigitChars)
      [] cls = "[A-Z]"    -> c \in Range(UpperChars)
      [] cls = "[!?]"     -> c \in {"!", "?"}
      [] cls = "[^\\w\\s]" -> ~IsWordChar(c) /\ ~IsSpaceChar(c)
      [] cls = "[- ]"     -> c \in {"-", " "}
      [] OTHER            -> FALSE

\* Regex syntax trees.  A position is the index of the next character to read.
Lit(s)       == [op |-> "lit", s |-> s]
Cls(cls)     == [op |-> "cls", cls |-> cls]
Cat(parts)   == [op |-> "cat", parts |-> parts]
Alt(alts)    == [op |-> "alt", alts |-> alts]
Rep(r, min)  == [op |-> "rep", of |-> r, min |-> min]
Opt(r)       == [op |-> "opt", of |-> r]
WordB        == [op |-> "wordb"]
\* a RegExp object: its tree and its i flag (every pattern carries g)
RegExp(tree, ignoreCase) == [tree |-> tree, ignoreCase |-> ignoreCase]

\* \b: exactly one of the characters around position i is a word character
AtWordBoundary(s, i) ==
    LET before == i > 1 /\ i - 1 <= Len(s) /\ IsWordChar(s[i - 1])
        after  == i <= Len(s) /\ IsWordChar(s[i])
    IN  before # after

LitAt(lit, s, i, ci) ==
    /\ i + Len(lit) - 1 <= Len(s)
    /\ \A k \in DOMAIN lit :
         IF ci THEN ToLowerChar(s[i + k - 1]) = ToLowerChar(lit[k])
         ELSE s[i + k - 1] = lit[k]

\* Ends(r, s, i, ci): the positions at which a match of r that starts at i
\* may end, in the order the backtracking matcher tries them (greedy
\* repetition, alternatives left to right).
RECURSIVE Ends(_, _, _, _), CatEnds(_, _, _, _), CatEndsFrom(_, _, _, _),
          AltEnds(_, _, _, _), RepEnds(_, _, _, _, _, _), RepEndsFrom(_, _, _, _, _, _)
Ends(r, s, i, ci) ==
    CASE r.op = "lit"   -> IF LitAt(r.s, s, i, ci) THEN <<i + Len(r.s)>> ELSE <<>>
      [] r.op = "cls"   -> IF i <= Len(s) /\ InClass(r.cls, s[i]) THEN <<i + 1>> ELSE <<>>
      [] r.op = "wordb" -> IF AtWordBoundary(s, i) THEN <<i>> ELSE <<>>
      [] r.op = "cat"   -> CatEnds(r.parts, s, i, ci)
      [] r.op = "alt"   -> AltEnds(r.alts, s, i, ci)
      [] r.op = "rep"   -> RepEnds(r.of, r.min, s, i, ci, 0)
      [] r.op = "opt"   -> Ends(r.of, s, i, ci) \o <<i>>
CatEnds(parts, s, i, ci) ==
    IF parts = <<>> THEN <<i>>
    ELSE CatEndsFrom(Ends(Head(parts), s, i, ci), Tail(parts), s, ci)
CatEndsFrom(starts, parts, s, ci) ==
    IF starts = <<>> THEN <<>>
    ELSE CatEnds(parts, s, Head(starts), ci) \o CatEndsFrom(Tail(starts), parts, s, ci)
AltEnds(alts, s, i, ci) ==
    IF alts = <<>> THEN <<>>
    ELSE Ends(Head(alts), s, i, ci) \o AltEnds(Tail(alts), s, i, ci)
RepEnds(r, min, s, i, ci, n) ==
    RepEndsFrom(SelectSeq(Ends(r, s, i, ci), LAMBDA e : e > i), r, min, s, ci, n + 1)
        \o (IF n >= min THEN <<i>> ELSE <<>>)
RepEndsFrom(starts, r, min, s, ci, n) ==
    IF starts = <<>> THEN <<>>
    ELSE RepEnds(r, min, s, Head(starts), ci, n) \o RepEndsFrom(Tail(starts), r, min, s, ci, n)

\* String.prototype.match(pattern) with a global pattern: null, or the array
\* of matches, of which the code reads element 0, the leftmost match.
NoMatch == [found |-> FALSE, text |-> <<>>]

\* the match that starts at i when the pattern matches there (ends lists the
\* positions where it may end, the first one being the matcher's choice),
\* otherwise the leftmost match that starts after i
RECURSIVE MatchFrom(_, _, _)
MatchAt(s, pattern, i, ends) ==
    IF ends # <<>> THEN [found |-> TRUE, text |-> SubSeq(s, i, Head(ends) - 1)]
    ELSE MatchFrom(s, pattern, i + 1)
MatchFrom(s, pattern, i) ==
    IF i > Len(s) + 1 THEN NoMatch
    ELSE MatchAt(s, pattern, i, Ends(pattern.tree, s, i, pattern.ignoreCase))

\* String.prototype.match that reads no i flag
StringMatch_IgnoresFlags(s, pattern) ==
    MatchFrom(s, [pattern EXCEPT !.ignoreCase = FALSE], 1)

StringMatch(s, pattern) == MatchFrom(s, pattern, 1)

\* ------------------------------------------------------------- rule corpus

\* types/compliance.types: Rule = PatternRule | KeywordRule | BaseRule.
\* hasPattern and hasKeywords are the tests ("pattern" in rule && rule.pattern)
\* and ("keywords" in rule && rule.keywords) of checkRules.
NoRegExp == RegExp(Alt(<<>>), FALSE)
PatternRule(id, rule, pattern, severity, fix) ==
    [id |-> id, rule |-> rule, severity |-> severity, fix |-> fix,
     hasPattern |-> TRUE, pattern |-> pattern, hasKeywords |-> FALSE, keywords |-> <<>>]
KeywordRule(id, rule, keywords, severity, fix) ==
    [id |-> id, rule |-> rule, severity |-> severity, fix |-> fix,
     hasPattern |-> FALSE, pattern |-> NoRegExp, hasKeywords |-> TRUE, keywords |-> keywords]
BaseRule(id, rule, severity, fix) ==
    [id |-> id, rule |-> rule, severity |-> severity, fix |-> fix,
     hasPattern |-> FALSE, pattern |-> NoRegExp, hasKeywords |-> FALSE, keywords |-> <<>>]

GoogleRules ==
    <<
      PatternRule("google-1", "No \"Click here\" phrases - use descriptive CTAs",
          RegExp(Cat(<<Lit(<<"c", "l", "i", "c", "k">>), Rep(Cls("\\s"), 1), Lit(<<"h", "e", "r", "e">>)>>), TRUE),
          "high", "Use descriptive calls-to-action like \"Learn More\" or \"Get Started\""),
      PatternRule("google-2", "No excessive capitalization",
          RegExp(Rep(Cls("[A-Z]"), 4), FALSE),
          "medium", "Use proper capitalization - only capitalize proper nouns and first letters"),
      PatternRule("google-3", "No excessive punctuation",
          RegExp(Rep(Cls("[!?]"), 2), FALSE),
          "medium", "Use single punctuation marks for professional appearance"),
      PatternRule("google-4", "No misleading spacing or symbols",
          RegExp(Rep(Cls("[^\\w\\s]"), 3), FALSE),
          "high", "Remove excessive symbols or special characters")
    >>

MetaRules ==
    <<
      KeywordRule("meta-1", "No sensational claims without evidence",
          <<<<"m", "i", "r", "a", "c", "l", "e">>,
            <<"g", "u", "a", "r", "a", "n", "t", "e", "e", "d", " ", "r", "e", "s", "u", "l", "t", "s">>,
            <<"i", "n", "s", "t", "a", "n", "t">>,
            <<"m", "a", "g", "i", "c">>,
            <<"s", "e", "c", "r", "e", "t", " ", "t", "r", "i", "c", "k">>,
            <<"s", "h", "o", "c", "k", "i", "n", "g">>>>,
          "high", "Replace with factual, substantiated claims"),
      KeywordRule("meta-2", "No before/after claims without proper disclaimers",
          <<<<"b", "e", "f", "o", "r", "e", " ", "a", "n", "d", " ", "a", "f", "t", "e", "r">>,
            <<"r", "e", "s", "u", "l", "t", "s", " ", "g", "u", "a", "r", "a", "n", "t", "e", "e", "d">>,
            <<"l", "o", "s", "e", " ", "w", "e", "i", "g", "h", "t", " ", "f", "a", "s", "t">>>>,
          "high", "Add disclaimer: 'Results may vary' or remove unverified claims"),
      KeywordRule("meta-3", "No personal attributes targeting",
          <<<<"s", "i", "n", "g", "l", "e">>,
            <<"d", "i", "v", "o", "r", "c", "e", "d">>,
            <<"p", "o", "o", "r", " ", "c", "r", "e", "d", "i", "t">>,
            <<"m", "e", "d", "i", "c", "a", "l", " ", "c", "o", "n", "d", "i", "t", "i", "o", "n">>>>,
          "high", "Remove references to personal attributes or characteristics"),
      BaseRule("meta-4", "Text in images must not exceed 20% of image area", "medium", "Reduce text overlay on images or use text in post copy instead")
    >>

LinkedinRules ==
    <<
      BaseRule("linkedin-1", "Professional tone required", "medium", "Maintain business-appropriate language and tone"),
      KeywordRule("linkedin-2", "No overly casual or unprofessional language",
          <<<<"g", "o", "n", "n", "a">>,
            <<"w", "a", "n", "n", "a">>,
            <<"a", "i", "n", "'", "t">>,
            <<"y", "a", "'", "l", "l">>,
            <<"l", "o", "l">>,
            <<"o", "m", "g">>>>,
          "medium", "Use professional language appropriate for business context"),
      KeywordRule("linkedin-3", "No misleading job opportunities or fake news",
          <<<<"m", "a", "k", "e", " ", "m", "o", "n", "e", "y", " ", "f", "a", "s", "t">>,
            <<"w", "o", "r", "k", " ", "f", "r", "o", "m", " ", "h", "o", "m", "e", " ", "e", "a", "s", "y", " ", "m", "o", "n", "e", "y">>>>,
          "high", "Provide transparent, accurate information about opportunities")
    >>

TiktokRules ==
    <<
      BaseRule("tiktok-1", "Age-appropriate content required", "high", "Ensure content is appropriate for users 13+ years old"),
      KeywordRule("tiktok-2", "No promotion of alcohol, tobacco, or drugs",
          <<<<"a", "l", "c", "o", "h", "o", "l">>,
            <<"b", "e", "e", "r">>,
            <<"w", "i", "n", "e">>,
            <<"c", "i", "g", "a", "r", "e", "t", "t", "e">>,
            <<"v", "a", "p", "e">>,
            <<"c", "b", "d">>>>,
          "high", "Remove references to restricted substances"),
      BaseRule("tiktok-3", "No unrealistic body standards or dangerous challenges", "high", "Promote positive, realistic messaging")
    >>

EnUsRules ==
    <<
      PatternRule("us-ftc-1", "No unsubstantiated 'guaranteed results' claims",
          RegExp(Cat(<<Lit(<<"g", "u", "a", "r", "a", "n", "t", "e", "e">>), Opt(Lit(<<"d">>)), Rep(Cls("\\s"), 1), Alt(<<Cat(<<Lit(<<"r", "e", "s", "u", "l", "t">>), Opt(Lit(<<"s">>))>>), Lit(<<"s", "u", "c", "c", "e", "s", "s">>), Lit(<<"i", "n", "c", "o", "m", "e">>), Lit(<<"m", "o", "n", "e", "y">>), Lit(<<"c", "u", "r", "e">>)>>)>>), TRUE),
          "high", "Replace with \"potential results\" or \"may help achieve\""),
      PatternRule("us-ftc-2", "No false urgency or scarcity claims",
          RegExp(Alt(<<Cat(<<Lit(<<"l", "a", "s", "t">>), Rep(Cls("\\s"), 1), Lit(<<"c", "h", "a", "n", "c", "e">>)>>), Cat(<<Lit(<<"e", "n", "d", "i", "n", "g">>), Rep(Cls("\\s"), 1), Lit(<<"s", "o", "o", "n">>)>>), Cat(<<Lit(<<"l", "i", "m", "i", "t", "e", "d">>), Rep(Cls("\\s"), 1), Lit(<<"t", "i", "m", "e">>)>>), Cat(<<Lit(<<"o", "n", "l", "y">>), Rep(Cls("\\s"), 1), Rep(Cls("\\d"), 1), Rep(Cls("\\s"), 1), Lit(<<"l", "e", "f", "t">>)>>)>>), TRUE),
          "medium", "Remove or add specific verifiable end date"),
      PatternRule("us-ftc-3", "Endorsements must disclose material connections",
          RegExp(Alt(<<Lit(<<"#", "a", "d">>), Lit(<<"#", "s", "p", "o", "n", "s", "o", "r", "e", "d">>), Cat(<<Lit(<<"p", "a", "i", "d">>), Rep(Cls("\\s"), 1), Lit(<<"p", "a", "r", "t", "n", "e", "r", "s", "h", "i", "p">>)>>)>>), TRUE),
          "high", "Clearly disclose any sponsored or paid relationships"),
      PatternRule("us-ftc-4", "Made in USA claims require substantiation",
          RegExp(Cat(<<Lit(<<"m", "a", "d", "e">>), Rep(Cls("\\s"), 1), Lit(<<"i", "n">>), Rep(Cls("\\s"), 1), Alt(<<Lit(<<"u", "s", "a">>), Lit(<<"a", "m", "e", "r", "i", "c", "a">>)>>)>>), TRUE),
          "high", "Ensure all or virtually all product components are US-sourced")
    >>

FinanceRules ==
    <<
      PatternRule("finance-1", "No guaranteed returns or profit promises",
          RegExp(Cat(<<Lit(<<"g", "u", "a", "r", "a", "n", "t", "e", "e">>), Opt(Lit(<<"d">>)), Rep(Cls("\\s"), 1), Alt(<<Cat(<<Lit(<<"r", "e", "t", "u", "r", "n">>), Opt(Lit(<<"s">>))>>), Lit(<<"p", "r", "o", "f", "i", "t">>), Cat(<<Lit(<<"g", "a", "i", "n">>), Opt(Lit(<<"s">>))>>), Lit(<<"r", "o", "i">>)>>)>>), TRUE),
          "high", "Use \"potential returns\" or \"historical performance\" with disclaimers"),
      BaseRule("finance-2", "Risk disclosure required", "high", "Add: \"Investments carry risk. Past performance does not guarantee future results.\""),
      PatternRule("finance-3", "No misleading investment advice",
          RegExp(Cat(<<WordB, Alt(<<Lit(<<"i", "n", "s", "i", "d", "e", "r", " ", "t", "i", "p">>), Lit(<<"h", "o", "t", " ", "s", "t", "o", "c", "k">>), Lit(<<"c", "a", "n", "'", "t", " ", "l", "o", "s", "e">>)>>), WordB>>), TRUE),
          "high", "Remove speculative or misleading investment language"),
      BaseRule("finance-4", "License/registration disclosure required", "high", "Include regulatory registration information")
    >>

CryptoRules ==
    <<
      PatternRule("crypto-1", "No \"risk-free\" or \"guaranteed\" claims",
          RegExp(Alt(<<Cat(<<Lit(<<"r", "i", "s", "k">>), Opt(Cls("[- ]")), Lit(<<"f", "r", "e", "e">>)>>), Cat(<<Lit(<<"n", "o">>), Rep(Cls("\\s"), 1), Lit(<<"r", "i", "s", "k">>)>>), Cat(<<Lit(<<"g", "u", "a", "r", "a", "n", "t", "e", "e">>), Opt(Lit(<<"d">>)), Rep(Cls("\\s"), 1), Lit(<<"p", "r", "o", "f", "i", "t">>)>>)>>), TRUE),
          "high", "Add clear risk warnings about cryptocurrency volatility"),
      BaseRule("crypto-2", "Volatility warning required", "high", "Add: \"Cryptocurrency values are highly volatile and may result in significant losses.\""),
      PatternRule("crypto-3", "No encouragement of excessive risk-taking",
          RegExp(Cat(<<WordB, Alt(<<Lit(<<"m", "o", "o", "n">>), Lit(<<"l", "a", "m", "b", "o">>), Lit(<<"t", "o", " ", "t", "h", "e", " ", "m", "o", "o", "n">>), Lit(<<"1", "0", "0", "x">>), Lit(<<"1", "0", "0", "0", "x">>)>>), WordB>>), TRUE),
          "high", "Remove speculative hype language"),
      BaseRule("crypto-4", "Regulatory status disclosure", "medium", "Disclose regulatory status and jurisdiction")
    >>

HealthRules ==
    <<
      PatternRule("health-1", "No unverified medical claims",
          RegExp(Alt(<<Lit(<<"c", "u", "r", "e">>), Lit(<<"d", "i", "a", "g", "n", "o", "s", "e">>), Lit(<<"t", "r", "e", "a", "t">>), Lit(<<"p", "r", "e", "v", "e", "n", "t">>), Lit(<<"t", "h", "e", "r", "a", "p", "y">>)>>), TRUE),
          "high", "Use \"support\" or \"may help\" with appropriate disclaimers"),
      BaseRule("health-2", "Clinical evidence required for health claims", "high", "Provide peer-reviewed study citations or remove claims"),
      BaseRule("health-3", "FDA/medical authority approval required for drug claims", "high", "Ensure FDA approval or remove medical device/drug claims"),
      PatternRule("health-4", "No fear-based health messaging",
          RegExp(Cat(<<WordB, Alt(<<Lit(<<"d", "e", "a", "d", "l", "y">>), Lit(<<"f", "a", "t", "a", "l">>), Lit(<<"l", "i", "f", "e", "-", "t", "h", "r", "e", "a", "t", "e", "n", "i", "n", "g">>), Lit(<<"d", "a", "n", "g", "e", "r", "o", "u", "s">>)>>), WordB>>), TRUE),
          "high", "Use factual, non-alarmist language"),
      BaseRule("health-5", "Medical disclaimer required", "high", "Add: \"Not intended to diagnose, treat, cure, or prevent any disease.\"")
    >>

WeightLossRules ==
    <<
      PatternRule("weight-1", "No rapid weight loss promises",
          RegExp(Cat(<<Lit(<<"l", "o", "s", "e">>), Rep(Cls("\\s"), 1), Rep(Cls("\\d"), 1), Rep(Cls("\\s"), 1), Alt(<<Cat(<<Lit(<<"l", "b">>), Opt(Lit(<<"s">>))>>), Lit(<<"k", "g">>), Cat(<<Lit(<<"p", "o", "u", "n", "d">>), Opt(Lit(<<"s">>))>>), Cat(<<Lit(<<"k", "i", "l", "o">>), Opt(Lit(<<"s">>))>>)>>), Rep(Cls("\\s"), 1), Lit(<<"i", "n">>), Rep(Cls("\\s"), 1), Rep(Cls("\\d"), 1), Rep(Cls("\\s"), 1), Alt(<<Cat(<<Lit(<<"d", "a", "y">>), Opt(Lit(<<"s">>))>>), Cat(<<Lit(<<"w", "e", "e", "k">>), Opt(Lit(<<"s">>))>>)>>)>>), TRUE),
          "high", "Remove specific weight loss timeframes or use realistic claims"),
      BaseRule("weight-2", "Typical results disclaimer required", "high", "Add: \"Results vary. Typical results may be different from advertised results.\""),
      BaseRule("weight-3", "No before/after photos without disclaimers", "high", "Add disclaimer about atypical results and individual variation"),
      BaseRule("weight-4", "Exercise and diet acknowledgment required", "medium", "Include: \"Combined with diet and exercise\" where applicable"),
      BaseRule("weight-5", "No body shaming or negative messaging", "high", "Focus on positive health outcomes, not body criticism")
    >>

\* Property names every object literal inherits from Object.prototype: the
\* lookup TABLE[key] finds them although the table does not list them.
InheritedKeys == { <<"c", "o", "n", "s", "t", "r", "u", "c", "t", "o", "r">>, <<"t", "o", "S", "t", "r", "i", "n", "g">>, <<"v", "a", "l", "u", "e", "O", "f">>, <<"h", "a", "s", "O", "w", "n", "P", "r", "o", "p", "e", "r", "t", "y">>, <<"_", "_", "p", "r", "o", "t", "o", "_", "_">> }

\* The value of a lookup in a rule table: a rule list (iterable), null or []
\* by the || fallback (iterable, empty), or an inherited member of
\* Object.prototype (truthy, not iterable, without the fields of a rule set).
RuleList(rules) == [iterable |-> TRUE, rules |-> rules, isNull |-> FALSE, authority |-> "undefined"]
NotIterable     == [iterable |-> FALSE, rules |-> <<>>, isNull |-> FALSE, authority |-> "undefined"]
CountryRuleSet(authority, rules) ==
    [iterable |-> TRUE, rules |-> rules, isNull |-> FALSE, authority |-> authority]
Null == [iterable |-> FALSE, rules |-> <<>>, isNull |-> TRUE, authority |-> "undefined"]

\* PLATFORM_RULES[platform] || []
getPlatformRules(platform) ==
    CASE platform = <<"g", "o", "o", "g", "l", "e">>   -> RuleList(GoogleRules)
      [] platform = <<"m", "e", "t", "a">>     -> RuleList(MetaRules)
      [] platform = <<"l", "i", "n", "k", "e", "d", "i", "n">> -> RuleList(LinkedinRules)
      [] platform = <<"t", "i", "k", "t", "o", "k">>   -> RuleList(TiktokRules)
      [] platform \in InheritedKeys -> NotIterable
      [] OTHER -> RuleList(<<>>)

\* COUNTRY_RULES[locale] || null.  Of the six locales of the table the model
\* carries en-US; the inputs explored name no other listed locale.
getCountryRules(locale) ==
    CASE locale = <<"e", "n", "-", "U", "S">> -> CountryRuleSet("FTC (Federal Trade Commission)", EnUsRules)
      [] locale \in InheritedKeys -> NotIterable
      [] OTHER -> Null

\* INDUSTRY_RULES[industry] || []
getIndustryRules(industry) ==
    CASE industry = <<"f", "i", "n", "a", "n", "c", "e">>     -> RuleList(FinanceRules)
      [] industry = <<"c", "r", "y", "p", "t", "o">>      -> RuleList(CryptoRules)
      [] industry = <<"h", "e", "a", "l", "t", "h">>      -> RuleList(HealthRules)
      [] industry = <<"w", "e", "i", "g", "h", "t", "-", "l", "o", "s", "s">> -> RuleList(WeightLossRules)
      [] industry \in InheritedKeys -> NotIterable
      [] OTHER -> RuleList(<<>>)

\* ------------------------------------------ compliance-validator.service

PatternMatchIssue(rule, match, authority) ==
    [id |-> rule.id, rule |-> rule.rule, severity |-> rule.severity,
     match |-> match, fix |-> rule.fix, authority |-> authority]

\* the keyword loop of checkRules: the first keyword found, then break
RECURSIVE FirstKeyword(_, _)
FirstKeyword(adCopy, keywords) ==
    IF keywords = <<>> THEN NoMatch
    ELSE IF Includes(ToLowerCase(adCopy), ToLowerCase(Head(keywords)))
         THEN [found |-> TRUE, text |-> Head(keywords)]
         ELSE FirstKeyword(adCopy, Tail(keywords))

\* one iteration of the rule loop of checkRules, the keyword loop without its
\* break: an issue for every keyword found
RuleIssues_EveryKeyword(adCopy, rule, authority) ==
    (IF rule.hasPattern /\ MatchFrom(adCopy, rule.pattern, 1).found
     THEN <<[id |-> rule.id, rule |-> rule.rule, severity |-> rule.severity,
             match |-> MatchFrom(adCopy, rule.pattern, 1).text, fix |-> rule.fix,
             authority |-> authority]>>
     ELSE <<>>)
      \o (IF rule.hasKeywords
          THEN LET hits == SelectSeq(rule.keywords,
                              LAMBDA keyword : Includes(ToLowerCase(adCopy),
                                                        ToLowerCase(keyword)))
               IN  [j \in 1..Len(hits) |->
                      [id |-> rule.id, rule |-> rule.rule, severity |-> rule.severity,
                       match |-> hits[j], fix |-> rule.fix, authority |-> authority]]
          ELSE <<>>)

\* if (matches) issues.push({...}) and if (matchedKeyword) issues.push({...})
IssueOf(rule, m, authority) ==
    IF m.found THEN <<PatternMatchIssue(rule, m.text, authority)>> ELSE <<>>

\* one iteration of the rule loop of checkRules
RuleIssues(adCopy, rule, authority) ==
    IssueOf(rule, IF rule.hasPattern THEN StringMatch(adCopy, rule.pattern) ELSE NoMatch,
            authority)
      \o IssueOf(rule, IF rule.hasKeywords THEN FirstKeyword(adCopy, rule.keywords) ELSE NoMatch,
                 authority)

\* checkRules that reports a matched text once, for the first rule that
\* matched it
checkRules_DedupesMatches(adCopy, rules, authority) ==
    LET RECURSIVE Go(_, _)
        Go(rest, seen) ==
            IF rest = <<>> THEN <<>>
            ELSE LET own == SelectSeq(RuleIssues(adCopy, Head(rest), authority),
                                      LAMBDA issue : issue.match \notin seen)
                 IN  own \o Go(Tail(rest), seen \cup { own[k].match : k \in DOMAIN own })
    IN  Go(rules, {})

RECURSIVE checkRules(_, _, _)
checkRules(adCopy, rules, authority) ==
    IF rules = <<>> THEN <<>>
    ELSE RuleIssues(adCopy, Head(rules), authority) \o checkRules(adCopy, Tail(rules), authority)

CountSeverity(issues, severity) ==
    Cardinality({ i \in DOMAIN issues : issues[i].severity = severity })

\* calculateOverallSeverity as the maximum severity present
calculateOverallSeverity_MaxSeverity(issues) ==
    IF \E i \in DOMAIN issues : issues[i].severity = "high" THEN "high"
    ELSE IF \E i \in DOMAIN issues : issues[i].severity = "medium" THEN "medium"
    ELSE "low"

\* calculateOverallSeverity that compounds from three medium issues on
calculateOverallSeverity_ThreeMediums(issues) ==
    IF Len(issues) = 0 THEN "low"
    ELSE IF \E i \in DOMAIN issues : issues[i].severity = "high" THEN "high"
    ELSE IF CountSeverity(issues, "medium") >= 3 THEN "high"
    ELSE IF CountSeverity(issues, "medium") >= 1 THEN "medium"
    ELSE "low"

calculateOverallSeverity(issues) ==
    IF Len(issues) = 0 THEN "low"
    ELSE IF \E i \in DOMAIN issues : issues[i].severity = "high" THEN "high"
    ELSE IF CountSeverity(issues, "medium") >= 2 THEN "high"
    ELSE IF CountSeverity(issues, "medium") >= 1 THEN "medium"
    ELSE "low"

Max(a, b) == IF a >= b THEN a ELSE b

RECURSIVE ScoreLoop(_, _)
ScoreLoop(issues, score) ==
    IF issues = <<>> THEN score
    ELSE ScoreLoop(Tail(issues),
             CASE Head(issues).severity = "high"   -> score - 20
               [] Head(issues).severity = "medium" -> score - 10
               [] Head(issues).severity = "low"    -> score - 5
               [] OTHER                            -> score)

\* calculateComplianceScore without Math.max(0, score)
calculateComplianceScore_Unclamped(issues) ==
    IF Len(issues) = 0 THEN 100 ELSE ScoreLoop(issues, 100)

\* calculateComplianceScore that stops at the first high-severity issue
calculateComplianceScore_StopsAtHigh(issues) ==
    IF Len(issues) = 0 THEN 100
    ELSE IF \E i \in DOMAIN issues : issues[i].severity = "high"
         THEN Max(0, ScoreLoop(SubSeq(issues, 1,
                  CHOOSE i \in DOMAIN issues :
                     /\ issues[i].severity = "high"
                     /\ \A j \in 1..(i - 1) : issues[j].severity # "high"), 100))
         ELSE Max(0, ScoreLoop(issues, 100))

calculateComplianceScore(issues) ==
    IF Len(issues) = 0 THEN 100 ELSE Max(0, ScoreLoop(issues, 100))

\* groupIssuesBySeverity: the issues of each severity, in list order
groupIssuesBySeverity(issues) ==
    [high   |-> SelectSeq(issues, LAMBDA issue : issue.severity = "high"),
     medium |-> SelectSeq(issues, LAMBDA issue : issue.severity = "medium"),
     low    |-> SelectSeq(issues, LAMBDA issue : issue.severity = "low")]

\* `${n}` for a length: the decimal digits of n
RECURSIVE NumberToString(_)
NumberToString(n) ==
    IF n < 10 THEN <<DigitChars[n + 1]>>
    ELSE NumberToString(n \div 10) \o <<DigitChars[(n % 10) + 1]>>

\* the object isSafeToPublish returns; the last return has no reason
PublishStatus(safe, hasReason, reason, recommendation) ==
    [safe |-> safe, hasReason |-> hasReason, reason |-> reason,
     recommendation |-> recommendation]

\* isSafeToPublish past groupIssuesBySeverity, with a high-severity test
\* that allowMediumRisk switches off
PublishDecision_HighAllowed(grouped, allowMediumRisk) ==
    IF Len(grouped.high) > 0 /\ ~allowMediumRisk
    THEN PublishStatus(FALSE, TRUE,
             NumberToString(Len(grouped.high))
                \o <<" ", "h", "i", "g", "h", "-", "s", "e", "v", "e", "r", "i", "t", "y", " ", "c", "o", "m", "p", "l", "i", "a", "n", "c", "e", " ", "i", "s", "s", "u", "e", "(", "s", ")", " ", "d", "e", "t", "e", "c", "t", "e", "d">>,
             "Review and fix all high-severity issues before publishing")
    ELSE IF Len(grouped.medium) > 2 /\ ~allowMediumRisk
    THEN PublishStatus(FALSE, TRUE,
             NumberToString(Len(grouped.medium)) \o <<" ", "m", "e", "d", "i", "u", "m", "-", "s", "e", "v", "e", "r", "i", "t", "y", " ", "i", "s", "s", "u", "e", "s", " ", "d", "e", "t", "e", "c", "t", "e", "d">>,
             "Address medium-severity issues to reduce risk")
    ELSE IF Len(grouped.medium) > 0
    THEN PublishStatus(allowMediumRisk, TRUE, <<"S", "o", "m", "e", " ", "m", "e", "d", "i", "u", "m", "-", "s", "e", "v", "e", "r", "i", "t", "y", " ", "i", "s", "s", "u", "e", "s", " ", "d", "e", "t", "e", "c", "t", "e", "d">>,
             "Review medium-severity issues and consider fixes")
    ELSE PublishStatus(TRUE, FALSE, <<>>,
             IF Len(grouped.low) > 0
             THEN "Consider addressing low-severity issues for optimization"
             ELSE "Ad copy meets compliance standards")

\* isSafeToPublish past groupIssuesBySeverity, with a medium-severity test
\* that ignores allowMediumRisk
PublishDecision_StrictMediums(grouped, allowMediumRisk) ==
    IF Len(grouped.high) > 0
    THEN PublishStatus(FALSE, TRUE,
             NumberToString(Len(grouped.high))
                \o <<" ", "h", "i", "g", "h", "-", "s", "e", "v", "e", "r", "i", "t", "y", " ", "c", "o", "m", "p", "l", "i", "a", "n", "c", "e", " ", "i", "s", "s", "u", "e", "(", "s", ")", " ", "d", "e", "t", "e", "c", "t", "e", "d">>,
             "Review and fix all high-severity issues before publishing")
    ELSE IF Len(grouped.medium) > 2
    THEN PublishStatus(FALSE, TRUE,
             NumberToString(Len(grouped.medium)) \o <<" ", "m", "e", "d", "i", "u", "m", "-", "s", "e", "v", "e", "r", "i", "t", "y", " ", "i", "s", "s", "u", "e", "s", " ", "d", "e", "t", "e", "c", "t", "e", "d">>,
             "Address medium-severity issues to reduce risk")
    ELSE IF Len(grouped.medium) > 0
    THEN PublishStatus(allowMediumRisk, TRUE, <<"S", "o", "m", "e", " ", "m", "e", "d", "i", "u", "m", "-", "s", "e", "v", "e", "r", "i", "t", "y", " ", "i", "s", "s", "u", "e", "s", " ", "d", "e", "t", "e", "c", "t", "e", "d">>,
             "Review medium-severity issues and consider fixes")
    ELSE PublishStatus(TRUE, FALSE, <<>>,
             IF Len(grouped.low) > 0
             THEN "Consider addressing low-severity issues for optimization"
             ELSE "Ad copy meets compliance standards")

\* isSafeToPublish past groupIssuesBySeverity
PublishDecision(grouped, allowMediumRisk) ==
    IF Len(grouped.high) > 0
    THEN PublishStatus(FALSE, TRUE,
             NumberToString(Len(grouped.high))
                \o <<" ", "h", "i", "g", "h", "-", "s", "e", "v", "e", "r", "i", "t", "y", " ", "c", "o", "m", "p", "l", "i", "a", "n", "c", "e", " ", "i", "s", "s", "u", "e", "(", "s", ")", " ", "d", "e", "t", "e", "c", "t", "e", "d">>,
             "Review and fix all high-severity issues before publishing")
    ELSE IF Len(grouped.medium) > 2 /\ ~allowMediumRisk
    THEN PublishStatus(FALSE, TRUE,
             NumberToString(Len(grouped.medium)) \o <<" ", "m", "e", "d", "i", "u", "m", "-", "s", "e", "v", "e", "r", "i", "t", "y", " ", "i", "s", "s", "u", "e", "s", " ", "d", "e", "t", "e", "c", "t", "e", "d">>,
             "Address medium-severity issues to reduce risk")
    ELSE IF Len(grouped.medium) > 0
    THEN PublishStatus(allowMediumRisk, TRUE, <<"S", "o", "m", "e", " ", "m", "e", "d", "i", "u", "m", "-", "s", "e", "v", "e", "r", "i", "t", "y", " ", "i", "s", "s", "u", "e", "s", " ", "d", "e", "t", "e", "c", "t", "e", "d">>,
             "Review medium-severity issues and consider fixes")
    ELSE PublishStatus(TRUE, FALSE, <<>>,
             IF Len(grouped.low) > 0
             THEN "Consider addressing low-severity issues for optimization"
             ELSE "Ad copy meets compliance standards")

\* isSafeToPublish that takes allowMediumRisk as given
isSafeToPublish_AllowsMedium(issues, allowMediumRisk) ==
    PublishDecision(groupIssuesBySeverity(issues), TRUE)

isSafeToPublish(issues, allowMediumRisk) ==
    PublishDecision(groupIssuesBySeverity(issues), allowMediumRisk)

\* for (const rule of rules) over a value that is not iterable
NotIterableError == Thrown("Error", "", <<"r", "u", "l", "e", "s", " ", "i", "s", " ", "n", "o", "t", " ", "i", "t", "e", "r", "a", "b", "l", "e">>)

\* the value validateCompliance returns
ValidationResult(issues, rulesCoverage) ==
    [threw |-> FALSE, error |-> Undefined, issues |-> issues,
     overallSeverity |-> calculateOverallSeverity(issues),
     rulesCoverage |-> rulesCoverage]

\* validateCompliance past the three lookups: the three checkRules calls in
\* order; a lookup that is not iterable throws out of the function
ValidateWith(adCopy, platformRules, countryRuleSet, industryRules) ==
    IF \/ ~platformRules.iterable
       \/ ~countryRuleSet.isNull /\ ~countryRuleSet.iterable
       \/ ~industryRules.iterable
    THEN [threw |-> TRUE, error |-> NotIterableError, issues |-> <<>>,
          overallSeverity |-> "low",
          rulesCoverage |-> [platform |-> 0, country |-> 0, industry |-> 0]]
    ELSE ValidationResult(
             checkRules(adCopy, platformRules.rules, "undefined")
               \o (IF countryRuleSet.isNull THEN <<>>
                   ELSE checkRules(adCopy, countryRuleSet.rules, countryRuleSet.authority))
               \o checkRules(adCopy, industryRules.rules, "undefined"),
             [platform |-> Len(platformRules.rules),
              country  |-> Len(countryRuleSet.rules),
              industry |-> Len(industryRules.rules)])

validateCompliance(adCopy, locale, platform, industry) ==
    ValidateWith(adCopy, getPlatformRules(platform), getCountryRules(locale),
                 getIndustryRules(industry))

\* ------------------------------------------------------------ program data

\* An ad copy: chars repeated rep times.
Rope(chars, rep) == [chars |-> chars, rep |-> rep]
Str(chars) == Rope(chars, 1)

\* String.prototype.length
Length(rope) == Len(rope.chars) * rope.rep

\* the characters of an ad copy
Expand(rope) ==
    [i \in 1..Length(rope) |-> rope.chars[((i - 1) % Len(rope.chars)) + 1]]

\* s.trim().length === 0: every character is white space
IsBlank(s) == \A i \in DOMAIN s : IsSpaceChar(s[i])

\* ComplianceCheckRequest
Request(adCopy, locale, platform, industry, strictMode) ==
    [adCopy |-> adCopy, locale |-> locale, platform |-> platform,
     industry |-> industry, strictMode |-> strictMode]

NoRequest == Request(Str(<<>>), <<>>, <<>>, <<>>, FALSE)

\* error-handler.ts: retryWithBackoff(fn, maxRetries = 3, initialDelay = 1000)
DefaultMaxRetries == 3
DefaultInitialDelay == 1000

\* compliance-ai.service: COMPLIANCE_AI_CONFIG.maxRetries
AiMaxRetries == 2

\* compliance.service: the length limit of validateComplianceRequest
MaxAdCopyLength == 5000

\* ------------------------------------------------------------------- tasks

\* One task is one call of retryWithBackoff, alone (caller "direct") or under
\* analyzeComplianceWithAI inside checkCompliance (caller "analyze").
\* pc: "start" not yet called, "fn" the callback is in flight (await fn()),
\* "sleep" the backoff timer is pending, "done" the call has settled.
\* log is the history of the task, kept for the properties only.
Event(ev, error, ms) == [ev |-> ev, error |-> error, ms |-> ms]

Log(t, ev, error, ms) == [t EXCEPT !.log = Append(@, Event(ev, error, ms))]

Pending == [status |-> "pending", value |-> <<>>, error |-> Undefined]

IdleTask ==
    [pc |-> "start", caller |-> "direct", req |-> NoRequest,
     maxRetries |-> 0, initialDelay |-> 0, attempt |-> 0, lastError |-> Undefined,
     patternMatchedIssues |-> <<>>, aiParams |-> <<>>, log |-> <<>>,
     outcome |-> Pending]

\* the promise of the task's outermost call settles
Return(t, value) ==
    [t EXCEPT !.pc = "done",
              !.outcome = [status |-> "returned", value |-> <<value>>, error |-> Undefined]]
Throw(t, error) ==
    [t EXCEPT !.pc = "done",
              !.outcome = [status |-> "thrown", value |-> <<>>, error |-> error]]

\* ------------------------------------------- compliance.service (results)

IsHigh(issue) == issue.severity = "high"

\* CheckResult that counts the pattern-matched issues only
CheckResult_PatternCountOnly(request, patternMatchedIssues, aiAnalysis) ==
    [success |-> TRUE,
     adCopy |-> request.adCopy, locale |-> request.locale,
     platform |-> request.platform, industry |-> request.industry,
     patternMatchedIssues |-> patternMatchedIssues,
     aiAnalysis |-> aiAnalysis,
     metadata |->
        [totalIssues |-> Len(patternMatchedIssues),
         criticalIssues |-> Len(SelectSeq(patternMatchedIssues, IsHigh))]]

\* the object checkCompliance returns (timestamp and processingTimeMs, which
\* read the clock, are left out)
CheckResult(request, patternMatchedIssues, aiAnalysis) ==
    [success |-> TRUE,
     adCopy |-> request.adCopy, locale |-> request.locale,
     platform |-> request.platform, industry |-> request.industry,
     patternMatchedIssues |-> patternMatchedIssues,
     aiAnalysis |-> aiAnalysis,
     metadata |->
        [totalIssues |-> Len(patternMatchedIssues) + Len(aiAnalysis.issues),
         criticalIssues |->
            Len(SelectSeq(patternMatchedIssues, IsHigh))
              + Len(SelectSeq(aiAnalysis.issues, IsHigh))]]

\* the catch block of checkCompliance: logError(error), throw error
CheckCatch(t, error) == Throw(Log(t, "logError", error, 0), error)

\* the statements of checkCompliance after the await of the AI analysis
CheckContinue(t, aiAnalysis) ==
    Return(t, CheckResult(t.req, t.patternMatchedIssues, aiAnalysis))

\* ------------------------------------------------- compliance-ai.service

StageName(platform, locale) ==
    <<"A", "I", " ", "c", "o", "m", "p", "l", "i", "a", "n", "c", "e", " ", "a", "n", "a", "l", "y", "s", "i", "s", " ", "f", "o", "r", " ">> \o platform \o <<" ", "i", "n", " ">> \o locale

\* AnalyzeCatch that rethrows the error of the model call as it is
AnalyzeCatch_Unwrapped(t, error) == CheckCatch(t, error)

\* the catch block of analyzeComplianceWithAI, thrown into checkCompliance
AnalyzeCatch(t, error) ==
    CheckCatch(t, handleGenerationError(error, StageName(t.req.platform, t.req.locale)))

\* return result, back in checkCompliance
AnalyzeReturn(t, result) == CheckContinue(t, result)

\* ------------------------------------------------------- retryWithBackoff

RetryReturns(t, value) ==
    IF t.caller = "direct" THEN Return(t, value) ELSE AnalyzeReturn(t, value)

RetryThrows(t, error) ==
    IF t.caller = "direct" THEN Throw(t, error) ELSE AnalyzeCatch(t, error)

\* the head of the for loop: the next await fn(), or throw lastError
RetryLoop(t) ==
    IF t.attempt < t.maxRetries
    THEN Log([t EXCEPT !.pc = "fn"], "call", Undefined, 0)
    ELSE RetryThrows(t, t.lastError)

retryWithBackoff(t, maxRetries, initialDelay) ==
    RetryLoop([t EXCEPT !.maxRetries = maxRetries, !.initialDelay = initialDelay,
                        !.attempt = 0, !.lastError = Undefined])

\* OnFnResolved that goes on to the next attempt instead of returning
OnFnResolved_TriesAgain(t, value) ==
    IF t.attempt < t.maxRetries - 1
    THEN Log([Log(t, "ok", Undefined, 0) EXCEPT !.attempt = @ + 1],
             "call", Undefined, 0)
    ELSE RetryReturns(Log(t, "ok", Undefined, 0), value)

\* await fn() returned
OnFnResolved(t, value) == RetryReturns(Log(t, "ok", Undefined, 0), value)

\* OnFnRejected with the bound of the last attempt off by one
OnFnRejected_WaitsAfterLast(t, error) ==
    LET t1 == Log([t EXCEPT !.lastError = error], "fail", error, 0)
    IN  IF ~isRetryableError(error) \/ t.attempt = t.maxRetries
        THEN RetryThrows(t1, error)
        ELSE Log([t1 EXCEPT !.pc = "sleep"], "wait", Undefined,
                 t.initialDelay * Pow2(t.attempt))

\* OnFnRejected without the test of isRetryableError
OnFnRejected_RetriesEverything(t, error) ==
    LET t1 == Log([t EXCEPT !.lastError = error], "fail", error, 0)
    IN  IF t.attempt = t.maxRetries - 1
        THEN RetryThrows(t1, error)
        ELSE Log([t1 EXCEPT !.pc = "sleep"], "wait", Undefined,
                 t.initialDelay * Pow2(t.attempt))

\* the catch block of the loop body
OnFnRejected(t, error) ==
    LET t1 == Log([t EXCEPT !.lastError = error], "fail", error, 0)
    IN  IF ~isRetryableError(error) \/ t.attempt = t.maxRetries - 1
        THEN RetryThrows(t1, error)
        ELSE Log([t1 EXCEPT !.pc = "sleep"], "wait", Undefined,
                 t.initialDelay * Pow2(t.attempt))

\* the timer of the backoff fired: attempt++ and the loop head
OnTimer(t) == RetryLoop([t EXCEPT !.attempt = @ + 1])

\* ------------------------------------------------ analyzeComplianceWithAI

AiParams(request, patternMatchedIssues) ==
    [adCopy |-> request.adCopy, locale |-> request.locale,
     platform |-> request.platform, industry |-> request.industry,
     patternMatchedIssues |-> patternMatchedIssues,
     strictMode |-> request.strictMode]

\* analyzeComplianceWithAI that leaves maxRetries to the default of
\* retryWithBackoff
analyzeComplianceWithAI_DefaultRetries(t, params) ==
    retryWithBackoff(
        Log([t EXCEPT !.caller = "analyze", !.aiParams = <<params>>], "ai", Undefined, 0),
        DefaultMaxRetries, DefaultInitialDelay)

analyzeComplianceWithAI(t, params) ==
    retryWithBackoff(
        Log([t EXCEPT !.caller = "analyze", !.aiParams = <<params>>], "ai", Undefined, 0),
        AiMaxRetries, DefaultInitialDelay)

\* --------------------------------------------------------- checkCompliance

\* validateComplianceRequest that stops at the first violation
validateComplianceRequest_FailFast(request) ==
    IF Length(request.adCopy) = 0 \/ IsBlank(request.adCopy.chars)
    THEN <<<<"A", "d", " ", "c", "o", "p", "y", " ", "i", "s", " ", "r", "e", "q", "u", "i", "r", "e", "d">>>>
    ELSE IF Length(request.adCopy) > MaxAdCopyLength
    THEN <<<<"A", "d", " ", "c", "o", "p", "y", " ", "m", "u", "s", "t", " ", "n", "o", "t", " ", "e", "x", "c", "e", "e", "d", " ", "5", "0", "0", "0", " ", "c", "h", "a", "r", "a", "c", "t", "e", "r", "s">>>>
    ELSE IF request.locale = <<>> \/ IsBlank(request.locale)
    THEN <<<<"L", "o", "c", "a", "l", "e", " ", "i", "s", " ", "r", "e", "q", "u", "i", "r", "e", "d">>>>
    ELSE IF request.platform = <<>> \/ IsBlank(request.platform)
    THEN <<<<"P", "l", "a", "t", "f", "o", "r", "m", " ", "i", "s", " ", "r", "e", "q", "u", "i", "r", "e", "d">>>>
    ELSE IF request.industry = <<>> \/ IsBlank(request.industry)
    THEN <<<<"I", "n", "d", "u", "s", "t", "r", "y", " ", "i", "s", " ", "r", "e", "q", "u", "i", "r", "e", "d">>>>
    ELSE <<>>

validateComplianceRequest(request) ==
    (IF Length(request.adCopy) = 0 \/ IsBlank(request.adCopy.chars)
     THEN <<<<"A", "d", " ", "c", "o", "p", "y", " ", "i", "s", " ", "r", "e", "q", "u", "i", "r", "e", "d">>>> ELSE <<>>)
    \o (IF Length(request.adCopy) # 0 /\ Length(request.adCopy) > MaxAdCopyLength
        THEN <<<<"A", "d", " ", "c", "o", "p", "y", " ", "m", "u", "s", "t", " ", "n", "o", "t", " ", "e", "x", "c", "e", "e", "d", " ", "5", "0", "0", "0", " ", "c", "h", "a", "r", "a", "c", "t", "e", "r", "s">>>> ELSE <<>>)
    \o (IF request.locale = <<>> \/ IsBlank(request.locale)
        THEN <<<<"L", "o", "c", "a", "l", "e", " ", "i", "s", " ", "r", "e", "q", "u", "i", "r", "e", "d">>>> ELSE <<>>)
    \o (IF request.platform = <<>> \/ IsBlank(request.platform)
        THEN <<<<"P", "l", "a", "t", "f", "o", "r", "m", " ", "i", "s", " ", "r", "e", "q", "u", "i", "r", "e", "d">>>> ELSE <<>>)
    \o (IF request.industry = <<>> \/ IsBlank(request.industry)
        THEN <<<<"I", "n", "d", "u", "s", "t", "r", "y", " ", "i", "s", " ", "r", "e", "q", "u", "i", "r", "e", "d">>>> ELSE <<>>)

\* checkCompliance from the pattern-matching step to its first await; v is
\* what validateCompliance gives
CheckAfterPattern(t, request, v) ==
    IF v.threw THEN CheckCatch(t, v.error)
    ELSE analyzeComplianceWithAI([t EXCEPT !.patternMatchedIssues = v.issues],
                                 AiParams(request, v.issues))

\* checkCompliance past the validation of the request; errors is what
\* validateComplianceRequest found
CheckAfterValidate(t, request, errors) ==
    IF Len(errors) > 0
    THEN Throw(t, handleValidationError(errors, <<"c", "o", "m", "p", "l", "i", "a", "n", "c", "e", " ", "c", "h", "e", "c", "k", " ", "r", "e", "q", "u", "e", "s", "t">>))
    ELSE CheckAfterPattern(
             Log(t, "pattern", Undefined, 0), request,
             validateCompliance(Expand(request.adCopy), request.locale,
                                request.platform, request.industry))

\* checkCompliance that matches the patterns before it validates the request
checkCompliance_ValidatesLast(t, request) ==
    LET t1 == Log(Log([t EXCEPT !.req = request], "pattern", Undefined, 0),
                  "validate", Undefined, 0)
    IN  IF Len(validateComplianceRequest(request)) > 0
        THEN Throw(t1, handleValidationError(validateComplianceRequest(request),
                                             <<"c", "o", "m", "p", "l", "i", "a", "n", "c", "e", " ", "c", "h", "e", "c", "k", " ", "r", "e", "q", "u", "e", "s", "t">>))
        ELSE CheckAfterPattern(t1, request,
                 validateCompliance(Expand(request.adCopy), request.locale,
                                    request.platform, request.industry))

\* the synchronous part of checkCompliance, up to its first await
checkCompliance(t, request) ==
    CheckAfterValidate(Log([t EXCEPT !.req = request], "validate", Undefined, 0),
                       request, validateComplianceRequest(request))

\* ---------------------------------------------------- batchCheckCompliance

\* ErrorResult that drops the message of the error
ErrorResult_LosesMessage(request, error) ==
    [success |-> FALSE,
     adCopy |-> request.adCopy, locale |-> request.locale,
     platform |-> request.platform, industry |-> request.industry,
     patternMatchedIssues |-> <<>>,
     aiAnalysis |->
        [issues |-> <<>>, overallRisk |-> "high",
         autoFixedCopy |-> request.adCopy,
         explanation |-> <<"E", "r", "r", "o", "r", " ", "p", "r", "o", "c", "e", "s", "s", "i", "n", "g", " ", "c", "o", "m", "p", "l", "i", "a", "n", "c", "e", " ", "c", "h", "e", "c", "k", ":", " ", "U", "n", "k", "n", "o", "w", "n", " ", "e", "r", "r", "o", "r">>]]

\* the catch block of the member function: the error result
ErrorResult(request, error) ==
    [success |-> FALSE,
     adCopy |-> request.adCopy, locale |-> request.locale,
     platform |-> request.platform, industry |-> request.industry,
     patternMatchedIssues |-> <<>>,
     aiAnalysis |->
        [issues |-> <<>>, overallRisk |-> "high",
         autoFixedCopy |-> request.adCopy,
         explanation |->
            <<"E", "r", "r", "o", "r", " ", "p", "r", "o", "c", "e", "s", "s", "i", "n", "g", " ", "c", "o", "m", "p", "l", "i", "a", "n", "c", "e", " ", "c", "h", "e", "c", "k", ":", " ">>
              \o (IF IsError(error) THEN error.message ELSE <<"U", "n", "k", "n", "o", "w", "n", " ", "e", "r", "r", "o", "r">>)]]

\* the value of one member function once its checkCompliance has settled
MemberResult(t) ==
    IF t.outcome.status = "returned" THEN t.outcome.value[1]
    ELSE ErrorResult(t.req, t.outcome.error)

NotCalled == [status |-> "not called", list |-> <<>>]

\* the tasks that settle in a step, appended to the history in index order
Settled(tasks) ==
    settled \o SelectSeq([i \in Tasks |-> i],
                         LAMBDA i : task[i].pc # "done" /\ tasks[i].pc = "done")

\* PromiseAll that collects the member results as the members settle
PromiseAll_CompletionOrder(tasks, n) ==
    IF \A i \in 1..n : tasks[i].pc = "done"
    THEN [status |-> "resolved",
          list |-> [k \in 1..n |-> MemberResult(tasks[Settled(tasks)[k]])]]
    ELSE [status |-> "pending", list |-> <<>>]

\* Promise.all over the member promises: pending until every member has
\* settled, then the member results in the order of the requests
PromiseAll(tasks, n) ==
    IF \A i \in 1..n : tasks[i].pc = "done"
    THEN [status |-> "resolved", list |-> [i \in 1..n |-> MemberResult(tasks[i])]]
    ELSE [status |-> "pending", list |-> <<>>]

\* ------------------------------------------------------------------ inputs

\* Largest issue list handed to the aggregation functions.
MaxIssues == 4

AdGuaranteed   == Str(<<"G", "u", "a", "r", "a", "n", "t", "e", "e", "d", " ", "r", "e", "s", "u", "l", "t", "s", "!", " ", "C", "l", "i", "c", "k", " ", "h", "e", "r", "e", " ", "n", "o", "w", "!", "!">>)
AdClean        == Str(<<"L", "e", "a", "r", "n", " ", "m", "o", "r", "e", " ", "t", "o", "d", "a", "y">>)
AdEmpty        == Str(<<>>)
AdBlank        == Str(<<" ", " ", " ">>)
AdTooLong      == Rope(<<"a">>, MaxAdCopyLength + 1)
AdBlankTooLong == Rope(<<" ">>, MaxAdCopyLength + 1)

AdCopies   == { AdGuaranteed, AdClean, AdEmpty, AdBlank, AdTooLong, AdBlankTooLong }
Locales    == { <<"e", "n", "-", "U", "S">>, <<"x", "x", "-", "X", "X">>, <<>>, <<" ">> }
Platforms  == { <<"g", "o", "o", "g", "l", "e">>, <<"m", "e", "t", "a">>, <<"c", "o", "n", "s", "t", "r", "u", "c", "t", "o", "r">>, <<>> }
Industries == { <<"g", "e", "n", "e", "r", "a", "l">>, <<"f", "i", "n", "a", "n", "c", "e">>, <<>> }

\* the requests of a single checkCompliance call
Requests ==
    { Request(a, l, p, i, FALSE) : a \in AdCopies, l \in Locales, p \in Platforms, i \in Industries }

\* the requests a batch is drawn from
BatchRequests ==
    { Request(AdGuaranteed, <<"e", "n", "-", "U", "S">>, <<"g", "o", "o", "g", "l", "e">>, <<"g", "e", "n", "e", "r", "a", "l">>, FALSE),
      Request(AdClean, <<"x", "x", "-", "X", "X">>, <<"m", "e", "t", "a">>, <<"f", "i", "n", "a", "n", "c", "e">>, TRUE),
      Request(AdEmpty, <<>>, <<>>, <<"g", "e", "n", "e", "r", "a", "l">>, FALSE),
      Request(AdClean, <<"e", "n", "-", "U", "S">>, <<"c", "o", "n", "s", "t", "r", "u", "c", "t", "o", "r">>, <<"g", "e", "n", "e", "r", "a", "l">>, FALSE) }

\* the sequences over S of length at most n
RECURSIVE SeqsUpTo(_, _)
SeqsUpTo(S, n) ==
    IF n = 0 THEN { <<>> }
    ELSE LET shorter == SeqsUpTo(S, n - 1)
         IN  shorter \cup { Append(s, x) : s \in { q \in shorter : Len(q) = n - 1 }, x \in S }

\* ComplianceReport objects the model call may resolve with (they pass the
\* schema; a response that does not is a failure of the call)
ComplianceIssue(issue, severity, rule, suggestedFix) ==
    [issue |-> issue, severity |-> severity, rule |-> rule, suggestedFix |-> suggestedFix]

Reports ==
    { [issues |-> <<>>, overallRisk |-> "low",
       autoFixedCopy |-> AdClean, explanation |-> <<"N", "o", " ", "i", "s", "s", "u", "e", "s", " ", "f", "o", "u", "n", "d">>],
      [issues |-> << ComplianceIssue("Unsubstantiated guarantee", "high", "FTC", "Say may help"),
                     ComplianceIssue("Pushy call to action", "medium", "Google Ads", "Say Learn more") >>,
       overallRisk |-> "high",
       autoFixedCopy |-> AdClean, explanation |-> <<"T", "w", "o", " ", "i", "s", "s", "u", "e", "s", " ", "f", "o", "u", "n", "d">>] }

InitialDelays == { DefaultInitialDelay, 250 }

\* issue lists for the aggregation functions: one issue per severity
SampleIssue(severity) ==
    [id |-> "sample", rule |-> "sample rule", severity |-> severity,
     match |-> <<"x">>, fix |-> "sample fix", authority |-> "undefined"]

IssueLists == SeqsUpTo({ SampleIssue(s) : s \in {"high", "medium", "low"} }, MaxIssues)


NoArgs == [maxRetries |-> 0, initialDelay |-> 0]
NoAggregate == [called |-> FALSE, overallSeverity |-> "low"]

InitRetry ==
    /\ entry = "retryWithBackoff"
    /\ args \in [maxRetries : 0..MaxRetriesBound, initialDelay : InitialDelays]
    /\ requests = <<>>
    /\ task = [i \in Tasks |-> IdleTask]
    /\ results = NotCalled
    /\ settled = <<>>
    /\ issuesArg = <<>>
    /\ aggregate = NoAggregate

InitCheck ==
    /\ \/ entry = "checkCompliance" /\ requests \in { <<r>> : r \in Requests }
       \/ entry = "batchCheckCompliance" /\ requests \in SeqsUpTo(BatchRequests, MaxBatch)
    /\ args = NoArgs
    /\ task = [i \in Tasks |-> IdleTask]
    /\ results = NotCalled
    /\ settled = <<>>
    /\ issuesArg = <<>>
    /\ aggregate = NoAggregate

InitAggregate ==
    /\ entry = "calculateOverallSeverity"
    /\ args = NoArgs
    /\ requests = <<>>
    /\ task = [i \in Tasks |-> IdleTask]
    /\ results = NotCalled
    /\ settled = <<>>
    /\ issuesArg \in IssueLists
    /\ aggregate = NoAggregate

\* ----------------------------------------------------------------- actions

\* the promise of the batch after a step: Promise.all settles in the same
\* turn of the event loop as its last member
Batch(tasks) ==
    IF entry \in { "batchCheckCompliance", "compareCompliance" }
    THEN PromiseAll(tasks, Len(requests)) ELSE results

CallRetryWithBackoff ==
    /\ entry = "retryWithBackoff"
    /\ task[1].pc = "start"
    /\ LET after == [task EXCEPT ![1] = retryWithBackoff(@, args.maxRetries, args.initialDelay)]
       IN  task' = after /\ settled' = Settled(after)
    /\ UNCHANGED <<entry, args, requests, results, issuesArg, aggregate>>

CallCheckCompliance ==
    /\ entry = "checkCompliance"
    /\ task[1].pc = "start"
    /\ LET after == [task EXCEPT ![1] = checkCompliance(@, requests[1])]
       IN  task' = after /\ settled' = Settled(after)
    /\ UNCHANGED <<entry, args, requests, results, issuesArg, aggregate>>

\* a batch that awaits each member before it starts the next one: the call
\* runs the first member up to its first await
CallBatchCheckCompliance_Sequential ==
    /\ entry = "batchCheckCompliance"
    /\ results = NotCalled
    /\ LET started == [i \in Tasks |->
                          IF i <= Len(requests) /\ i = 1
                          THEN checkCompliance(task[i], requests[i])
                          ELSE task[i]]
       IN  /\ task' = started
           /\ results' = PromiseAll(started, Len(requests))
           /\ settled' = Settled(started)
    /\ UNCHANGED <<entry, args, requests, issuesArg, aggregate>>

\* a batch whose members push their pattern issues to one array they share
CallBatchCheckCompliance_SharedIssues ==
    /\ entry = "batchCheckCompliance"
    /\ results = NotCalled
    /\ LET started == [i \in Tasks |->
                          IF i <= Len(requests) THEN checkCompliance(task[i], requests[i])
                          ELSE task[i]]
           RECURSIVE Pushed(_)
           Pushed(i) == IF i = 0 THEN <<>>
                        ELSE Pushed(i - 1) \o started[i].patternMatchedIssues
           shared == [i \in Tasks |->
                         [started[i] EXCEPT !.patternMatchedIssues = Pushed(i)]]
       IN  /\ task' = shared
           /\ results' = PromiseAll(shared, Len(requests))
           /\ settled' = Settled(shared)
    /\ UNCHANGED <<entry, args, requests, issuesArg, aggregate>>

\* requests.map(async ...) runs every member up to its first await, in
\* request order, before Promise.all is awaited
CallBatchCheckCompliance ==
    /\ entry = "batchCheckCompliance"
    /\ results = NotCalled
    /\ LET started == [i \in Tasks |->
                          IF i <= Len(requests) THEN checkCompliance(task[i], requests[i])
                          ELSE task[i]]
       IN  /\ task' = started
           /\ results' = PromiseAll(started, Len(requests))
           /\ settled' = Settled(started)
    /\ UNCHANGED <<entry, args, requests, issuesArg, aggregate>>

\* the callback in flight resolves with value
FnResolve(i, value) ==
    /\ task[i].pc = "fn"
    /\ LET after == [task EXCEPT ![i] = OnFnResolved(@, value)]
       IN  task' = after /\ results' = Batch(after) /\ settled' = Settled(after)
    /\ UNCHANGED <<entry, args, requests, issuesArg, aggregate>>

\* the callback in flight rejects with the error of failure
FnReject(i, failure) ==
    /\ task[i].pc = "fn"
    /\ failure \in (IF task[i].caller = "direct" THEN Failures ELSE ModelFailures)
    /\ LET after == [task EXCEPT ![i] = OnFnRejected(@, failure.error)]
       IN  task' = after /\ results' = Batch(after) /\ settled' = Settled(after)
    /\ UNCHANGED <<entry, args, requests, issuesArg, aggregate>>

\* the backoff timer fires
TimerFire(i) ==
    /\ task[i].pc = "sleep"
    /\ LET after == [task EXCEPT ![i] = OnTimer(@)]
       IN  task' = after /\ results' = Batch(after) /\ settled' = Settled(after)
    /\ UNCHANGED <<entry, args, requests, issuesArg, aggregate>>

CallCalculateOverallSeverity ==
    /\ entry = "calculateOverallSeverity"
    /\ ~aggregate.called
    /\ aggregate' = [called |-> TRUE, overallSeverity |-> calculateOverallSeverity(issuesArg)]
    /\ UNCHANGED <<entry, args, requests, task, results, settled, issuesArg>>

Resolve == \E i \in Tasks, value \in Reports : FnResolve(i, value)
Reject  == \E i \in Tasks, failure \in Failures : FnReject(i, failure)
Timer   == \E i \in Tasks : TimerFire(i)

NextRetry == CallRetryWithBackoff \/ Resolve \/ Reject \/ Timer
NextCheck == CallCheckCompliance \/ CallBatchCheckCompliance \/ Resolve \/ Reject \/ Timer
NextAggregate == CallCalculateOverallSeverity

SpecRetry == InitRetry /\ [][NextRetry]_vars
\* every invocation of fn settles and every backoff timer fires
SpecRetrySettles ==
    InitRetry /\ [][NextRetry]_vars
        /\ WF_vars(Resolve \/ Reject) /\ WF_vars(Timer)
SpecCheck == InitCheck /\ [][NextCheck]_vars
SpecAggregate == InitAggregate /\ [][NextAggregate]_vars
Spec == (InitRetry \/ InitCheck \/ InitAggregate)
            /\ [][NextRetry \/ NextCheck \/ NextAggregate]_vars

\* ------------------------------------------- calls of the pure functions

\* the longest issue list of the calls of calculateComplianceScore,
\* calculateOverallSeverity and isSafeToPublish
MaxScoreIssues == 6

Severities == { "high", "medium", "low" }

ScoreLists == SeqsUpTo({ SampleIssue(s) : s \in Severities }, MaxScoreIssues)

\* issues.filter((_, index) => index !== k): the list without its k-th issue
Without(issues, k) ==
    [j \in 1..(Len(issues) - 1) |-> IF j < k THEN issues[j] ELSE issues[j + 1]]

NotCalledYet == [called |-> FALSE]

InitIssues ==
    /\ entry \in { "calculateOverallSeverity", "calculateComplianceScore", "isSafeToPublish" }
    /\ args = NoArgs
    /\ requests = <<>>
    /\ task = [i \in Tasks |-> IdleTask]
    /\ results = NotCalled
    /\ settled = <<>>
    /\ issuesArg \in ScoreLists
    /\ aggregate = NotCalledYet

\* calculateOverallSeverity on a list and on the list with one more issue
CallCalculateOverallSeverityTwice ==
    /\ entry = "calculateOverallSeverity"
    /\ ~aggregate.called
    /\ \E severity \in Severities :
         aggregate' = [called |-> TRUE, added |-> severity,
                       before |-> calculateOverallSeverity(issuesArg),
                       after  |-> calculateOverallSeverity(
                                      Append(issuesArg, SampleIssue(severity)))]
    /\ UNCHANGED <<entry, args, requests, task, results, settled, issuesArg>>

\* calculateComplianceScore on a list and on the list without one issue
CallCalculateComplianceScore ==
    /\ entry = "calculateComplianceScore"
    /\ ~aggregate.called
    /\ \E k \in (IF issuesArg = <<>> THEN {0} ELSE DOMAIN issuesArg) :
         aggregate' = [called |-> TRUE, removed |-> k,
                       score |-> calculateComplianceScore(issuesArg),
                       scoreWithout |->
                          IF k = 0 THEN calculateComplianceScore(issuesArg)
                          ELSE calculateComplianceScore(Without(issuesArg, k)),
                       overallSeverity |-> calculateOverallSeverity(issuesArg)]
    /\ UNCHANGED <<entry, args, requests, task, results, settled, issuesArg>>

CallIsSafeToPublish ==
    /\ entry = "isSafeToPublish"
    /\ ~aggregate.called
    /\ \E allowMediumRisk \in BOOLEAN :
         aggregate' = [called |-> TRUE, allowMediumRisk |-> allowMediumRisk,
                       status |-> isSafeToPublish(issuesArg, allowMediumRisk)]
    /\ UNCHANGED <<entry, args, requests, task, results, settled, issuesArg>>

NextIssues ==
    CallCalculateOverallSeverityTwice \/ CallCalculateComplianceScore \/ CallIsSafeToPublish

SpecIssues == InitIssues /\ [][NextIssues]_vars

\* ------------------------------------------ calls of the pattern matcher

AdKeywords == Str(<<"W", "i", "n", "e", " ", "a", "n", "d", " ", "B", "E", "E", "R", " ", "t", "o", "n", "i", "g", "h", "t", ",", " ", "l", "o", "l", " ", "o", "m", "g">>)

AdShouting == Str(<<"S", "a", "l", "e", " ", "e", "n", "d", "s", " ", "s", "o", "o", "n", "!", "!", "!">>)

PatternAdCopies == { AdGuaranteed, AdClean, AdKeywords, AdShouting }

\* the rule lists validateCompliance hands to checkRules, each with the
\* authority it passes along
RuleSets ==
    { [rules |-> rules, authority |-> "undefined"] :
        rules \in { GoogleRules, MetaRules, LinkedinRules, TiktokRules,
                    FinanceRules, CryptoRules, HealthRules, WeightLossRules } }
      \cup { [rules |-> EnUsRules, authority |-> getCountryRules(<<"e", "n", "-", "U", "S">>).authority] }

\* the parameters of the calls of validateCompliance: listed keys, keys the
\* corpus does not list, and keys that name a member of Object.prototype
ValidateRequests ==
    { Request(adCopy, locale, platform, industry, FALSE) :
        adCopy \in PatternAdCopies,
        locale \in { <<"e", "n", "-", "U", "S">>, <<"x", "x", "-", "X", "X">>, <<"c", "o", "n", "s", "t", "r", "u", "c", "t", "o", "r">> },
        platform \in { <<"g", "o", "o", "g", "l", "e">>, <<"t", "i", "k", "t", "o", "k">>, <<"l", "i", "n", "k", "e", "d", "i", "n">>, <<"m", "y", "s", "p", "a", "c", "e">>, <<"t", "o", "S", "t", "r", "i", "n", "g">> },
        industry \in { <<"g", "e", "n", "e", "r", "a", "l">>, <<"f", "i", "n", "a", "n", "c", "e">>, <<"v", "a", "l", "u", "e", "O", "f">> } }

InitPattern ==
    /\ \/ /\ entry = "checkRules"
          /\ \E adCopy \in PatternAdCopies, set \in RuleSets :
               args = [adCopy |-> adCopy, rules |-> set.rules, authority |-> set.authority]
          /\ requests = <<>>
       \/ /\ entry = "validateCompliance"
          /\ args = NoArgs
          /\ requests \in { <<r>> : r \in ValidateRequests }
    /\ task = [i \in Tasks |-> IdleTask]
    /\ results = NotCalled
    /\ settled = <<>>
    /\ issuesArg = <<>>
    /\ aggregate = NotCalledYet

CallCheckRules ==
    /\ entry = "checkRules"
    /\ ~aggregate.called
    /\ aggregate' = [called |-> TRUE,
                     issues |-> checkRules(Expand(args.adCopy), args.rules, args.authority)]
    /\ UNCHANGED <<entry, args, requests, task, results, settled, issuesArg>>

CallValidateCompliance ==
    /\ entry = "validateCompliance"
    /\ ~aggregate.called
    /\ aggregate' = [called |-> TRUE,
                     result |-> validateCompliance(Expand(requests[1].adCopy),
                                    requests[1].locale, requests[1].platform,
                                    requests[1].industry)]
    /\ UNCHANGED <<entry, args, requests, task, results, settled, issuesArg>>

NextPattern == CallCheckRules \/ CallValidateCompliance

SpecPattern == InitPattern /\ [][NextPattern]_vars

\* ------------------------------------------------------- compareCompliance

\* the inner loop: one request per platform, for one locale
RECURSIVE ForPlatforms(_, _, _, _)
ForPlatforms(adCopy, locale, platforms, industry) ==
    IF platforms = <<>> THEN <<>>
    ELSE <<Request(adCopy, locale, Head(platforms), industry, FALSE)>>
           \o ForPlatforms(adCopy, locale, Tail(platforms), industry)

\* ForLocales with the loops swapped: all locales of the first platform
\* first
ForLocales_PlatformMajor(adCopy, locales, platforms, industry) ==
    LET RECURSIVE Go(_)
        Go(rest) ==
            IF rest = <<>> THEN <<>>
            ELSE [k \in DOMAIN locales |->
                    Request(adCopy, locales[k], Head(rest), industry, FALSE)]
                   \o Go(Tail(rest))
    IN  Go(platforms)

\* the outer loop: for (const locale of locales)
RECURSIVE ForLocales(_, _, _, _)
ForLocales(adCopy, locales, platforms, industry) ==
    IF locales = <<>> THEN <<>>
    ELSE ForPlatforms(adCopy, Head(locales), platforms, industry)
           \o ForLocales(adCopy, Tail(locales), platforms, industry)

\* Map<string, number>: the entries in insertion order
MapEntry(key, value) == [key |-> key, value |-> value]

MapHas(map, key) == \E k \in DOMAIN map : map[k].key = key

\* map.get(key) || 0
GetOrZero(map, key) ==
    IF MapHas(map, key) THEN map[CHOOSE k \in DOMAIN map : map[k].key = key].value
    ELSE 0

\* map.set(key, value): a key the map holds keeps its place
MapSet(map, key, value) ==
    IF MapHas(map, key)
    THEN [k \in DOMAIN map |-> IF map[k].key = key THEN MapEntry(key, value) ELSE map[k]]
    ELSE Append(map, MapEntry(key, value))

\* the loop over the results: the running sum of the scores under each key
RECURSIVE ScoreSums(_, _, _)
ScoreSums(keys, scores, map) ==
    IF keys = <<>> THEN map
    ELSE ScoreSums(Tail(keys), Tail(scores),
                   MapSet(map, Head(keys), GetOrZero(map, Head(keys)) + Head(scores)))

\* Array.prototype.sort((a, b) => b[1] - a[1]): descending by value, and
\* stable, so entries of equal value keep their insertion order
InsertDescending(sorted, e) ==
    LET n == Cardinality({ k \in DOMAIN sorted : sorted[k].value >= e.value })
    IN  SubSeq(sorted, 1, n) \o <<e>> \o SubSeq(sorted, n + 1, Len(sorted))

RECURSIVE SortDescending(_)
SortDescending(entries) ==
    IF entries = <<>> THEN <<>>
    ELSE InsertDescending(SortDescending(SubSeq(entries, 1, Len(entries) - 1)),
                          entries[Len(entries)])

\* sorted[0]?.[0] || "unknown"
FirstKeyOr(sorted) ==
    IF sorted = <<>> \/ sorted[1].key = <<>> THEN <<"u", "n", "k", "n", "o", "w", "n">> ELSE sorted[1].key

Safest(map) == FirstKeyOr(SortDescending(map))

\* results.reduce(...) / results.length: a quotient of integers, not a
\* number when there is no result
Average(sum, count) == [nan |-> count = 0, sum |-> sum, count |-> count]

\* AverageAbove with a comparison that NaN passes
AverageAbove_NaNCompares(avg, bound) == avg.nan \/ avg.sum > bound * avg.count

\* avgScore > bound, false for NaN
AverageAbove(avg, bound) == ~avg.nan /\ avg.sum > bound * avg.count

RECURSIVE Sum(_)
Sum(numbers) == IF numbers = <<>> THEN 0 ELSE Head(numbers) + Sum(Tail(numbers))

\* RiskOfAverage with inclusive thresholds
RiskOfAverage_Inclusive(avg) ==
    IF ~avg.nan /\ avg.sum >= 80 * avg.count THEN "low"
    ELSE IF ~avg.nan /\ avg.sum >= 60 * avg.count THEN "medium" ELSE "high"

RiskOfAverage(avg) ==
    IF AverageAbove(avg, 80) THEN "low"
    ELSE IF AverageAbove(avg, 60) THEN "medium" ELSE "high"

\* compareCompliance after the await of the batch; scores are the scores of
\* the pattern-matched issues of the results
CompareSummary(list, scores) ==
    [results |-> list,
     summary |->
        [safestLocale   |-> Safest(ScoreSums([k \in DOMAIN list |-> list[k].locale], scores, <<>>)),
         safestPlatform |-> Safest(ScoreSums([k \in DOMAIN list |-> list[k].platform], scores, <<>>)),
         overallRisk    |-> RiskOfAverage(Average(Sum(scores), Len(list)))]]

\* PatternScores that gives the result of a failed check the score 0
PatternScores_FailedScoreZero(list) ==
    [k \in DOMAIN list |->
        IF list[k].success THEN calculateComplianceScore(list[k].patternMatchedIssues)
        ELSE 0]

PatternScores(list) ==
    [k \in DOMAIN list |-> calculateComplianceScore(list[k].patternMatchedIssues)]

\* ------------------------------------------------- calls of compareCompliance

\* the locale and platform lists of the calls: listed keys, keys the corpus
\* does not list, the empty string, a repeated key
CompareLocaleLists ==
    { <<>>, <<<<"e", "n", "-", "U", "S">>>>, <<<<"x", "x", "-", "X", "X">>>>, << <<>> >>,
      <<<<"e", "n", "-", "U", "S">>, <<"x", "x", "-", "X", "X">>>>, <<<<"e", "n", "-", "U", "S">>, <<"e", "n", "-", "U", "S">>>>, << <<>>, <<"e", "n", "-", "U", "S">> >> }

ComparePlatformLists ==
    { <<>>, <<<<"m", "e", "t", "a">>>>, <<<<"g", "o", "o", "g", "l", "e">>>>,
      <<<<"m", "e", "t", "a">>, <<>> >>, <<<<"c", "o", "n", "s", "t", "r", "u", "c", "t", "o", "r">>, <<"m", "e", "t", "a">>>>,
      <<<<"m", "e", "t", "a">>, <<>>, <<"c", "o", "n", "s", "t", "r", "u", "c", "t", "o", "r">>, <<"t", "o", "S", "t", "r", "i", "n", "g">>, <<"g", "o", "o", "g", "l", "e">>>> }

CompareParams ==
    { [adCopy |-> adCopy, locales |-> locales, platforms |-> platforms,
       industry |-> <<"g", "e", "n", "e", "r", "a", "l">>] :
        adCopy \in { AdGuaranteed, AdClean, AdEmpty },
        locales \in { l \in CompareLocaleLists : Len(l) <= MaxCombinations },
        platforms \in { p \in ComparePlatformLists : Len(p) <= MaxCombinations } }

InitCompare ==
    /\ entry = "compareCompliance"
    /\ args \in { p \in CompareParams :
                    Len(p.locales) * Len(p.platforms) <= MaxCombinations }
    /\ requests = <<>>
    /\ task = [i \in Tasks |-> IdleTask]
    /\ results = NotCalled
    /\ settled = <<>>
    /\ issuesArg = <<>>
    /\ aggregate = NotCalledYet

\* compareCompliance up to its await: the requests of all combinations, then
\* batchCheckCompliance, which runs every member up to its first await
StartCompare(reqs) ==
    LET started == [i \in Tasks |->
                      IF i <= Len(reqs) THEN checkCompliance(task[i], reqs[i])
                      ELSE task[i]]
    IN  /\ requests' = reqs
        /\ task' = started
        /\ results' = PromiseAll(started, Len(reqs))
        /\ settled' = Settled(started)

CallCompareCompliance ==
    /\ entry = "compareCompliance"
    /\ results = NotCalled
    /\ StartCompare(ForLocales(args.adCopy, args.locales, args.platforms, args.industry))
    /\ UNCHANGED <<entry, args, issuesArg, aggregate>>

\* the batch has resolved: compareCompliance resumes and returns
CompareResume ==
    /\ entry = "compareCompliance"
    /\ results.status = "resolved"
    /\ ~aggregate.called
    /\ aggregate' = [called |-> TRUE,
                     value |-> CompareSummary(results.list, PatternScores(results.list))]
    /\ UNCHANGED <<entry, args, requests, task, results, settled, issuesArg>>

NextCompare == CallCompareCompliance \/ CompareResume \/ Resolve \/ Reject \/ Timer

SpecCompare == InitCompare /\ [][NextCompare]_vars

\* ---------------------------------------------------------------- history

\* the events of kind ev in a log, in order
EventsOf(log, ev) == SelectSeq(log, LAMBDA e : e.ev = ev)

\* how often the callback was invoked
Calls(t) == Len(EventsOf(t.log, "call"))

\* the delays of the backoff waits, in order
Waits(t) == [k \in DOMAIN EventsOf(t.log, "wait") |-> EventsOf(t.log, "wait")[k].ms]

\* every invocation made so far failed with a retryable error
AllFailedRetryable(t) ==
    /\ EventsOf(t.log, "ok") = <<>>
    /\ \A k \in DOMAIN t.log : t.log[k].ev = "fail" => isRetryableError(t.log[k].error)

\* the direct call has settled
DirectDone == entry = "retryWithBackoff" /\ task[1].pc = "done"

\* ------------------------------------------------------------------ claims

\* C1: when every invocation of fn fails with a retryable error,
\* retryWithBackoff invokes fn exactly maxRetries times, waits
\* initialDelay * 2^attempt after failed attempt number attempt and before
\* the next invocation, waits nothing after the last failed attempt and then
\* throws the error of that attempt; with maxRetries = 3 and
\* initialDelay = 1000 there are 3 attempts and the waits are 1000, 2000.
C1_BackoffSchedule ==
    LET t == task[1]
        n == args.maxRetries
    IN  (DirectDone /\ AllFailedRetryable(t)) =>
          /\ Calls(t) = n
          /\ Len(t.log) = (IF n = 0 THEN 0 ELSE 3 * n - 1)
          /\ \A a \in 0..(n - 1) :
               /\ t.log[3 * a + 1].ev = "call"
               /\ t.log[3 * a + 2].ev = "fail"
               /\ a < n - 1 =>
                    /\ t.log[3 * a + 3].ev = "wait"
                    /\ t.log[3 * a + 3].ms = args.initialDelay * (2 ^ a)
          /\ t.outcome.status = "thrown"
          /\ n > 0 => t.outcome.error = t.log[Len(t.log)].error
          /\ (n = 3 /\ args.initialDelay = 1000) => Waits(t) = <<1000, 2000>>

C1_Witness ==
    /\ DirectDone /\ AllFailedRetryable(task[1])
    /\ args.maxRetries = DefaultMaxRetries /\ args.initialDelay = DefaultInitialDelay
    /\ Calls(task[1]) = 3
    /\ Waits(task[1]) = <<1000, 2000>>

\* C2: when an invocation of fn fails with a non-retryable error, or fails
\* on the last permitted attempt, retryWithBackoff throws the very error of
\* that invocation at once: no wait and no invocation follows the failure.
C2_ImmediatePropagation ==
    LET t == task[1]
    IN  entry = "retryWithBackoff" =>
          \A k \in DOMAIN t.log :
            ( /\ t.log[k].ev = "fail"
              /\ \/ ~isRetryableError(t.log[k].error)
                 \/ Len(EventsOf(SubSeq(t.log, 1, k), "fail")) = args.maxRetries )
            => /\ k = Len(t.log)
               /\ t.pc = "done"
               /\ t.outcome.status = "thrown"
               /\ t.outcome.error = t.log[k].error

C2_Witness ==
    /\ DirectDone
    /\ args.maxRetries = 3
    /\ Calls(task[1]) = 1
    /\ task[1].outcome.status = "thrown"
    /\ ~isRetryableError(task[1].outcome.error)

\* the number of failures among the first k events of a log
FailuresUpTo(log, k) == Len(EventsOf(SubSeq(log, 1, k), "fail"))

\* the signals of the errors createError gives the code INTERNAL_SERVER_ERROR
ServerErrorSignals == { "external_api", "generation_failed", "internal_error" }

\* C3 as claimed: a failure is retryable exactly when it signals transience
\* (rate limiting, timeout, connection reset, DNS failure); any other
\* failure ends the call on its first occurrence.
C3_RetryableIffTransient ==
    LET t == task[1]
    IN  entry = "retryWithBackoff" =>
          \A k \in DOMAIN t.log :
            t.log[k].ev = "fail" =>
              /\ isRetryableError(t.log[k].error)
                    <=> SignalOf(t.log[k].error) \in TransientSignals
              /\ SignalOf(t.log[k].error) \notin TransientSignals
                    => k = Len(t.log) /\ t.outcome.status = "thrown"

\* C3 amended: a failure is retried exactly when it is an ORPCError with
\* code TOO_MANY_REQUESTS, TIMEOUT or INTERNAL_SERVER_ERROR (the code
\* createError gives to external-API, generation and internal errors) or
\* another Error whose message names ECONNRESET, ETIMEDOUT or ENOTFOUND, and
\* the attempt is not the last; every other failure (a 4xx other than rate
\* limit, a schema mismatch or programming error raised as a plain Error, a
\* thrown non-Error) ends the call on its first occurrence.
C3_RetryClassification ==
    LET t == task[1]
    IN  entry = "retryWithBackoff" =>
          \A k \in DOMAIN t.log :
            t.log[k].ev = "fail" =>
              LET signal == SignalOf(t.log[k].error)
                  last   == FailuresUpTo(t.log, k) = args.maxRetries
              IN  IF signal \in TransientSignals \cup ServerErrorSignals /\ ~last
                  THEN /\ k < Len(t.log)
                       /\ t.log[k + 1].ev = "wait"
                  ELSE /\ k = Len(t.log)
                       /\ t.outcome.status = "thrown"
                       /\ t.outcome.error = t.log[k].error
                       /\ signal \notin TransientSignals \cup ServerErrorSignals
                            => Calls(t) = FailuresUpTo(t.log, k)

C3_Witness ==
    /\ entry = "retryWithBackoff"
    /\ Len(task[1].log) >= 3
    /\ task[1].log[2].ev = "fail"
    /\ SignalOf(task[1].log[2].error) = "generation_failed"
    /\ task[1].log[3].ev = "wait"

\* the model call of a task failed for good: the call has settled and no
\* invocation of the model resolved
ModelCallFailed(t) ==
    /\ t.caller = "analyze"
    /\ t.pc = "done"
    /\ EventsOf(t.log, "fail") # <<>>
    /\ EventsOf(t.log, "ok") = <<>>

LastFailure(t) == EventsOf(t.log, "fail")[Len(EventsOf(t.log, "fail"))].error

\* C4: when the model call of analyzeComplianceWithAI fails for good,
\* checkCompliance throws to its caller the generation-failure error whose
\* message carries the stage name "AI compliance analysis for {platform} in
\* {locale}" and the message of the failure; it returns no result.
C4_GenerationErrorPropagates ==
    \A i \in Tasks :
      ModelCallFailed(task[i]) =>
        LET t == task[i]
            stage == <<"A", "I", " ", "c", "o", "m", "p", "l", "i", "a", "n", "c", "e", " ",
                       "a", "n", "a", "l", "y", "s", "i", "s", " ", "f", "o", "r", " ">>
                       \o t.req.platform \o <<" ", "i", "n", " ">> \o t.req.locale
        IN  /\ t.outcome.status = "thrown"
            /\ t.outcome.value = <<>>
            /\ t.outcome.error.cls = "ORPCError"
            /\ t.outcome.error.code = errorMessages("GENERATION_FAILED")
            /\ Includes(t.outcome.error.message, stage)
            /\ Includes(t.outcome.error.message, LastFailure(t).message)

C4_Witness ==
    /\ entry = "checkCompliance"
    /\ ModelCallFailed(task[1])
    /\ Calls(task[1]) = AiMaxRetries
    /\ task[1].outcome.status = "thrown"

\* the batch call has been made
BatchCalled == entry = "batchCheckCompliance" /\ results # NotCalled

\* the issues the pattern matcher finds for a request
PatternIssues(request) ==
    validateCompliance(Expand(request.adCopy), request.locale,
                       request.platform, request.industry).issues

\* C5: batchCheckCompliance never rejects because of a member: it resolves
\* once every member has settled, with one entry per request; a member whose
\* check failed gives success = false, no pattern issues and a high-risk
\* aiAnalysis whose explanation embeds the error message; a member whose
\* check succeeded gives the success = true result its own check returned.
C5_BatchPartialFailure ==
    BatchCalled =>
      /\ results.status \in {"pending", "resolved"}
      /\ results.status = "resolved"
            <=> \A i \in 1..Len(requests) : task[i].pc = "done"
      /\ results.status = "resolved" =>
           /\ Len(results.list) = Len(requests)
           /\ \A i \in 1..Len(requests) :
                LET r == results.list[i]
                IN  IF task[i].outcome.status = "thrown"
                    THEN /\ r.success = FALSE
                         /\ r.patternMatchedIssues = <<>>
                         /\ r.aiAnalysis.overallRisk = "high"
                         /\ Includes(r.aiAnalysis.explanation, task[i].outcome.error.message)
                    ELSE /\ r.success = TRUE
                         /\ r = task[i].outcome.value[1]
                         /\ r.aiAnalysis \in Reports
                         /\ r.patternMatchedIssues = task[i].patternMatchedIssues

C5_Witness ==
    /\ BatchCalled /\ results.status = "resolved"
    /\ Len(requests) = 2
    /\ ModelCallFailed(task[1]) /\ Calls(task[1]) = AiMaxRetries
    /\ results.list[1].success = FALSE
    /\ results.list[2].success = TRUE

\* C6: the array batchCheckCompliance resolves with has the length of the
\* request list and its i-th entry echoes the i-th request, whatever the
\* order in which the members settled.
C6_BatchOrder ==
    (BatchCalled /\ results.status = "resolved") =>
      /\ Len(results.list) = Len(requests)
      /\ \A i \in 1..Len(requests) :
           /\ results.list[i].adCopy = requests[i].adCopy
           /\ results.list[i].locale = requests[i].locale
           /\ results.list[i].platform = requests[i].platform
           /\ results.list[i].industry = requests[i].industry

C6_Witness ==
    /\ BatchCalled /\ results.status = "resolved"
    /\ Len(requests) = 2 /\ requests[1] # requests[2]
    /\ settled = <<2, 1>>
    /\ results.list[1].success /\ results.list[2].success

\* a task runs checkCompliance on a request that passes validation
ValidCall(t) ==
    /\ entry \in {"checkCompliance", "batchCheckCompliance"}
    /\ t.pc # "start"
    /\ validateComplianceRequest(t.req) = <<>>

\* the position of the first event of kind ev in a log, 0 when there is none
FirstEvent(log, ev) ==
    IF \E k \in DOMAIN log : log[k].ev = ev
    THEN CHOOSE k \in DOMAIN log : log[k].ev = ev /\ \A j \in 1..(k - 1) : log[j].ev # ev
    ELSE 0

\* C7: in a checkCompliance call on a valid request the pattern-matching
\* step completes before the AI analysis starts, the AI analysis receives
\* exactly the issues that step produced, and the AI analysis is started in
\* every such call, also when the pattern matcher found no issue.
C7_PatternThenAI ==
    \A i \in Tasks :
      ValidCall(task[i]) =>
        LET t == task[i]
        IN  /\ FirstEvent(t.log, "ai") > 0
            /\ FirstEvent(t.log, "pattern") > 0
            /\ FirstEvent(t.log, "pattern") < FirstEvent(t.log, "ai")
            /\ Len(t.aiParams) = 1
            /\ t.aiParams[1].patternMatchedIssues = PatternIssues(t.req)
            /\ t.aiParams[1].patternMatchedIssues = t.patternMatchedIssues

\* the constraints of a request, each with the name the message gives it
Violations(request) ==
    { name \in { <<"A", "d", " ", "c", "o", "p", "y", " ", "i", "s", " ",
                   "r", "e", "q", "u", "i", "r", "e", "d">>,
                 <<"5", "0", "0", "0">>,
                 <<"L", "o", "c", "a", "l", "e">>,
                 <<"P", "l", "a", "t", "f", "o", "r", "m">>,
                 <<"I", "n", "d", "u", "s", "t", "r", "y">> } :
        \/ /\ name[1] = "A"
           /\ \A k \in DOMAIN request.adCopy.chars : request.adCopy.chars[k] = " "
        \/ /\ name[1] = "5"
           /\ Len(request.adCopy.chars) * request.adCopy.rep > 5000
        \/ /\ name[1] = "L"
           /\ \A k \in DOMAIN request.locale : request.locale[k] = " "
        \/ /\ name[1] = "P"
           /\ \A k \in DOMAIN request.platform : request.platform[k] = " "
        \/ /\ name[1] = "I"
           /\ \A k \in DOMAIN request.industry : request.industry[k] = " " }

\* C8: checkCompliance on a request that violates field constraints throws,
\* before any other step, one validation error whose message names every
\* violated constraint; with empty adCopy, locale and platform the message
\* enumerates the three.
C8_AllViolationsNamed ==
    \A i \in Tasks :
      ( /\ entry \in {"checkCompliance", "batchCheckCompliance"}
        /\ task[i].pc # "start"
        /\ Violations(task[i].req) # {} ) =>
        LET t == task[i]
        IN  /\ t.pc = "done"
            /\ t.outcome.status = "thrown"
            /\ t.outcome.error.cls = "ORPCError"
            /\ t.outcome.error.code = "BAD_REQUEST"
            /\ \A name \in Violations(t.req) : Includes(t.outcome.error.message, name)
            /\ FirstEvent(t.log, "pattern") = 0
            /\ FirstEvent(t.log, "ai") = 0
            /\ ( t.req.adCopy.chars = <<>> /\ t.req.locale = <<>>
                 /\ t.req.platform = <<>> /\ t.req.industry # <<>> )
               => t.outcome.error.message
                    = <<"V", "a", "l", "i", "d", "a", "t", "i", "o", "n", " ",
                        "f", "a", "i", "l", "e", "d", " ", "f", "o", "r", " ",
                        "c", "o", "m", "p", "l", "i", "a", "n", "c", "e", " ",
                        "c", "h", "e", "c", "k", " ", "r", "e", "q", "u", "e", "s", "t",
                        ":", " ",
                        "A", "d", " ", "c", "o", "p", "y", " ", "i", "s", " ",
                        "r", "e", "q", "u", "i", "r", "e", "d", ",", " ",
                        "L", "o", "c", "a", "l", "e", " ", "i", "s", " ",
                        "r", "e", "q", "u", "i", "r", "e", "d", ",", " ",
                        "P", "l", "a", "t", "f", "o", "r", "m", " ", "i", "s", " ",
                        "r", "e", "q", "u", "i", "r", "e", "d">>

C8_Witness ==
    /\ entry = "checkCompliance"
    /\ task[1].pc = "done"
    /\ task[1].req.adCopy.chars = <<>> /\ task[1].req.locale = <<>>
    /\ task[1].req.platform = <<>> /\ task[1].req.industry # <<>>
    /\ Cardinality(Violations(task[1].req)) = 3
    /\ task[1].outcome.status = "thrown"

\* the ComplianceCheckResults handed to the caller in a state
HandedResults ==
    IF entry = "checkCompliance"
    THEN IF task[1].pc = "done" /\ task[1].outcome.status = "returned"
         THEN { task[1].outcome.value[1] } ELSE {}
    ELSE IF entry = "batchCheckCompliance" /\ results # NotCalled
                                           /\ results.status = "resolved"
    THEN { results.list[i] : i \in DOMAIN results.list }
    ELSE {}

\* C9 as claimed: every ComplianceCheckResult handed to a caller carries
\* metadata whose totalIssues is the number of pattern-matched issues plus
\* the number of AI issues, hence at least the number of pattern issues.
C9_EveryResultHasTotals ==
    \A r \in HandedResults :
      /\ "metadata" \in DOMAIN r
      /\ r.metadata.totalIssues = Len(r.patternMatchedIssues) + Len(r.aiAnalysis.issues)
      /\ r.metadata.totalIssues >= Len(r.patternMatchedIssues)

\* C9 amended: every result with success = true handed to a caller carries
\* metadata whose totalIssues is the number of pattern-matched issues plus
\* the number of AI issues; the result batchCheckCompliance makes up for a
\* member whose check failed has success = false and carries no metadata.
C9_SuccessfulResultHasTotals ==
    \A r \in HandedResults :
      IF r.success
      THEN /\ "metadata" \in DOMAIN r
           /\ r.metadata.totalIssues = Len(r.patternMatchedIssues) + Len(r.aiAnalysis.issues)
           /\ r.metadata.totalIssues >= Len(r.patternMatchedIssues)
      ELSE "metadata" \notin DOMAIN r

C9_Witness ==
    /\ entry = "batchCheckCompliance" /\ results # NotCalled
    /\ results.status = "resolved" /\ Len(results.list) = 2
    /\ ~results.list[1].success
    /\ results.list[2].success
    /\ Len(results.list[2].patternMatchedIssues) > 0
    /\ Len(results.list[2].aiAnalysis.issues) > 0
    /\ results.list[2].metadata.totalIssues > Len(results.list[2].patternMatchedIssues)

\* C10: calculateOverallSeverity follows the tiered policy: the empty list
\* gives low; otherwise a high-severity issue gives high; otherwise two or
\* more medium-severity issues give high; otherwise one medium-severity
\* issue gives medium; otherwise low.
C10_TieredSeverity ==
    aggregate.called =>
      LET highs   == { k \in DOMAIN issuesArg : issuesArg[k].severity = "high" }
          mediums == { k \in DOMAIN issuesArg : issuesArg[k].severity = "medium" }
      IN  aggregate.overallSeverity =
            CASE issuesArg = <<>>            -> "low"
              [] issuesArg # <<>> /\ highs # {} -> "high"
              [] issuesArg # <<>> /\ highs = {} /\ Cardinality(mediums) >= 2 -> "high"
              [] issuesArg # <<>> /\ highs = {} /\ Cardinality(mediums) = 1 -> "medium"
              [] OTHER -> "low"

C10_Witness ==
    /\ aggregate.called
    /\ \A k \in DOMAIN issuesArg : issuesArg[k].severity # "high"
    /\ Cardinality({ k \in DOMAIN issuesArg : issuesArg[k].severity = "medium" }) = 2
    /\ aggregate.overallSeverity = "high"

\* the position of a severity in the ordering low < medium < high
SeverityRank(severity) ==
    CASE severity = "low" -> 1 [] severity = "medium" -> 2 [] severity = "high" -> 3

\* the number of issues of a severity in the list of the call
Count(severity) ==
    Cardinality({ k \in DOMAIN issuesArg : issuesArg[k].severity = severity })

\* C11: appending one more high-severity issue to a list never lowers the
\* result of calculateOverallSeverity (low < medium < high), and appending a
\* second medium-severity issue to a list with exactly one medium and no
\* high issue changes the result from medium to high.
C11_SeverityMonotone ==
    (entry = "calculateOverallSeverity" /\ aggregate.called) =>
      /\ aggregate.added = "high"
           => SeverityRank(aggregate.after) >= SeverityRank(aggregate.before)
      /\ (aggregate.added = "medium" /\ Count("medium") = 1 /\ Count("high") = 0)
           => aggregate.before = "medium" /\ aggregate.after = "high"

C11_Witness ==
    /\ entry = "calculateOverallSeverity" /\ aggregate.called
    /\ aggregate.added = "medium"
    /\ Count("medium") = 1 /\ Count("high") = 0 /\ Count("low") >= 1
    /\ aggregate.before = "medium" /\ aggregate.after = "high"

\* C12: calculateComplianceScore returns an integer between 0 and 100, and
\* removing any one issue of a non-empty list never decreases the score.
C12_ScoreBoundedMonotone ==
    (entry = "calculateComplianceScore" /\ aggregate.called) =>
      /\ aggregate.score \in 0..100
      /\ aggregate.scoreWithout \in 0..100
      /\ aggregate.removed # 0 => aggregate.score <= aggregate.scoreWithout

C12_Witness ==
    /\ entry = "calculateComplianceScore" /\ aggregate.called
    /\ aggregate.removed # 0
    /\ Count("high") = 6
    /\ aggregate.score = 0 /\ aggregate.scoreWithout = 0

\* C13: for a list with h high, m medium and l low issues
\* calculateComplianceScore returns max(0, 100 - 20h - 10m - 5l), whatever
\* the order of the issues and whatever calculateOverallSeverity returns.
C13_ScoreFormula ==
    (entry = "calculateComplianceScore" /\ aggregate.called) =>
      LET raw == 100 - 20 * Count("high") - 10 * Count("medium") - 5 * Count("low")
      IN  aggregate.score = (IF raw < 0 THEN 0 ELSE raw)

C13_Witness ==
    /\ entry = "calculateComplianceScore" /\ aggregate.called
    /\ Len(issuesArg) = 3
    /\ issuesArg[1].severity = "low" /\ issuesArg[2].severity = "medium"
    /\ issuesArg[3].severity = "medium"
    /\ aggregate.overallSeverity = "high"
    /\ aggregate.score = 75

\* C16: isSafeToPublish returns safe = false for every list with at least
\* one high-severity issue, for both values of allowMediumRisk and whatever
\* the number of medium and low issues.
C16_HighNeverSafe ==
    (entry = "isSafeToPublish" /\ aggregate.called /\ Count("high") >= 1) =>
      /\ aggregate.status.safe = FALSE
      /\ aggregate.status.hasReason

C16_Witness ==
    /\ entry = "isSafeToPublish" /\ aggregate.called
    /\ aggregate.allowMediumRisk
    /\ Count("high") = 1 /\ Count("medium") = 0
    /\ aggregate.status.safe = FALSE

\* C17: for a list with more than two medium-severity issues and no
\* high-severity issue isSafeToPublish returns safe = false when
\* allowMediumRisk is false and safe = true when allowMediumRisk is true.
C17_ManyMediums ==
    (entry = "isSafeToPublish" /\ aggregate.called
       /\ Count("medium") > 2 /\ Count("high") = 0) =>
      aggregate.status.safe = aggregate.allowMediumRisk

C17_Witness ==
    /\ entry = "isSafeToPublish" /\ aggregate.called
    /\ Count("medium") = 3 /\ Count("high") = 0
    /\ aggregate.allowMediumRisk
    /\ aggregate.status.safe = TRUE

\* the issues checkRules gave for a rule
IssuesOfRule(issues, rule) == SelectSeq(issues, LAMBDA issue : issue.id = rule.id)

\* the positions of the keywords of a rule that the text contains, case
\* ignored
KeywordHits(adCopy, rule) ==
    { k \in DOMAIN rule.keywords :
        Includes(ToLowerCase(adCopy), ToLowerCase(rule.keywords[k])) }

\* C14: checkRules emits at most one issue per rule; for a keyword rule it
\* emits an issue exactly when some keyword is a case-insensitive substring
\* of the ad copy, and that one issue carries the first such keyword in list
\* order, however many of the rule's keywords the text contains.
C14_OneIssuePerRule ==
    (entry = "checkRules" /\ aggregate.called) =>
      \A j \in DOMAIN args.rules :
        LET rule == args.rules[j]
            own  == IssuesOfRule(aggregate.issues, rule)
            hits == KeywordHits(Expand(args.adCopy), rule)
        IN  /\ Len(own) <= 1
            /\ rule.hasKeywords =>
                 IF hits = {} THEN own = <<>>
                 ELSE /\ Len(own) = 1
                      /\ own[1].match
                           = rule.keywords[CHOOSE k \in hits : \A h \in hits : k <= h]

C14_Witness ==
    /\ entry = "checkRules" /\ aggregate.called
    /\ args.adCopy = AdKeywords
    /\ \E j \in DOMAIN args.rules :
         /\ args.rules[j].hasKeywords
         /\ KeywordHits(Expand(args.adCopy), args.rules[j]) = {2, 3}
         /\ Len(IssuesOfRule(aggregate.issues, args.rules[j])) = 1
         /\ IssuesOfRule(aggregate.issues, args.rules[j])[1].match = <<"b", "e", "e", "r">>

\* the rules the corpus lists under a key of a namespace, none when the
\* corpus does not list the key
ListedPlatformRules(platform) ==
    CASE platform = <<"g", "o", "o", "g", "l", "e">>   -> GoogleRules
      [] platform = <<"m", "e", "t", "a">>     -> MetaRules
      [] platform = <<"l", "i", "n", "k", "e", "d", "i", "n">> -> LinkedinRules
      [] platform = <<"t", "i", "k", "t", "o", "k">>   -> TiktokRules
      [] OTHER -> <<>>
ListedCountryRules(locale) == IF locale = <<"e", "n", "-", "U", "S">> THEN EnUsRules ELSE <<>>
ListedIndustryRules(industry) ==
    CASE industry = <<"f", "i", "n", "a", "n", "c", "e">>     -> FinanceRules
      [] industry = <<"c", "r", "y", "p", "t", "o">>      -> CryptoRules
      [] industry = <<"h", "e", "a", "l", "t", "h">>      -> HealthRules
      [] industry = <<"w", "e", "i", "g", "h", "t", "-", "l", "o", "s", "s">> -> WeightLossRules
      [] OTHER -> <<>>

\* C15: validateCompliance never raises, whatever the locale, platform and
\* industry strings: a key the corpus does not list contributes no issue and
\* a rule count of 0 for its namespace, and the two other namespaces are
\* evaluated as they are with a listed key.
C15_UnknownKeysNeverRaise ==
    (entry = "validateCompliance" /\ aggregate.called) =>
      LET r  == requests[1]
          ad == Expand(r.adCopy)
      IN  /\ ~aggregate.result.threw
          /\ aggregate.result.issues
               = checkRules(ad, ListedPlatformRules(r.platform), "undefined")
                   \o checkRules(ad, ListedCountryRules(r.locale),
                                 "FTC (Federal Trade Commission)")
                   \o checkRules(ad, ListedIndustryRules(r.industry), "undefined")
          /\ aggregate.result.rulesCoverage
               = [platform |-> Len(ListedPlatformRules(r.platform)),
                  country  |-> Len(ListedCountryRules(r.locale)),
                  industry |-> Len(ListedIndustryRules(r.industry))]

\* C18: for ad copy "Guaranteed results! Click here now!!" with platform
\* google, locale en-US and industry general validateCompliance reports
\* three issues in this order: google-1 (high, "Click here"), google-3
\* (medium, "!!") and us-ftc-1 (high, "Guaranteed results", authority FTC);
\* no other rule fires, the overall severity is high and
\* calculateComplianceScore on the three issues is 50.
C18_ConcreteScenario ==
    ( /\ entry = "validateCompliance" /\ aggregate.called
      /\ requests[1].adCopy = Str(<<"G", "u", "a", "r", "a", "n", "t", "e", "e", "d", " ", "r", "e", "s", "u", "l", "t", "s", "!", " ", "C", "l", "i", "c", "k", " ", "h", "e", "r", "e", " ", "n", "o", "w", "!", "!">>)
      /\ requests[1].platform = <<"g", "o", "o", "g", "l", "e">>
      /\ requests[1].locale = <<"e", "n", "-", "U", "S">>
      /\ requests[1].industry = <<"g", "e", "n", "e", "r", "a", "l">> ) =>
      LET issues == aggregate.result.issues
      IN  /\ ~aggregate.result.threw
          /\ Len(issues) = 3
          /\ issues[1].id = "google-1" /\ issues[1].severity = "high"
          /\ issues[1].match = <<"C", "l", "i", "c", "k", " ", "h", "e", "r", "e">>
          /\ issues[2].id = "google-3" /\ issues[2].severity = "medium"
          /\ issues[2].match = <<"!", "!">>
          /\ issues[3].id = "us-ftc-1" /\ issues[3].severity = "high"
          /\ issues[3].match = <<"G", "u", "a", "r", "a", "n", "t", "e", "e", "d", " ", "r", "e", "s", "u", "l", "t", "s">>
          /\ issues[3].authority = "FTC (Federal Trade Commission)"
          /\ issues[1].authority = "undefined" /\ issues[2].authority = "undefined"
          /\ aggregate.result.overallSeverity = "high"
          /\ calculateComplianceScore(issues) = 50

C18_Witness ==
    /\ entry = "validateCompliance" /\ aggregate.called
    /\ requests[1] = Request(AdGuaranteed, <<"e", "n", "-", "U", "S">>, <<"g", "o", "o", "g", "l", "e">>, <<"g", "e", "n", "e", "r", "a", "l">>, FALSE)
    /\ Len(aggregate.result.issues) = 3
    /\ aggregate.result.rulesCoverage = [platform |-> 4, country |-> 4, industry |-> 0]

\* a member of the batch is past the synchronous part of its check: its
\* request was validated and, when it is valid and the pattern step did not
\* throw, its first call of the model is out
MemberStarted(t) ==
    /\ FirstEvent(t.log, "validate") > 0
    /\ \/ t.pc = "done" /\ t.outcome.status = "thrown" /\ FirstEvent(t.log, "ai") = 0
       \/ FirstEvent(t.log, "ai") > 0 /\ FirstEvent(t.log, "call") > FirstEvent(t.log, "ai")

\* C19: batchCheckCompliance starts every member before it awaits any: in
\* every state after the call each member is past its pattern step and has
\* its model call out, a member whose call is in flight can settle and a
\* member in backoff can resume whatever the other members are doing, and
\* the batch resolves exactly when every member has completed or failed.
C19_MembersRunConcurrently ==
    BatchCalled =>
      /\ \A i \in 1..Len(requests) :
           /\ MemberStarted(task[i])
           /\ task[i].pc \in {"fn", "sleep", "done"}
           /\ task[i].pc = "fn" =>
                /\ ENABLED (\E value \in Reports : FnResolve(i, value))
                /\ ENABLED (\E failure \in ModelFailures : FnReject(i, failure))
           /\ task[i].pc = "sleep" => ENABLED TimerFire(i)
      /\ results.status = (IF \A i \in 1..Len(requests) : task[i].pc = "done"
                           THEN "resolved" ELSE "pending")

C19_Witness ==
    /\ BatchCalled /\ Len(requests) = 2
    /\ task[1].pc = "sleep"
    /\ task[2].pc = "done" /\ task[2].outcome.status = "returned"
    /\ settled = <<2>>
    /\ results.status = "pending"

\* what validateCompliance gives for each request of a batch when the
\* request runs alone
Alone ==
    [r \in BatchRequests |->
        validateCompliance(Expand(r.adCopy), r.locale, r.platform, r.industry)]

\* a step leaves the request list as it is and, apart from the batch call
\* that starts the members, changes the record of one member only
FrameOfStep ==
    /\ requests' = requests
    /\ entry' = entry
    /\ results # NotCalled =>
         \A i, j \in Tasks : (i # j /\ task'[i] # task[i]) => task'[j] = task[j]

\* the pattern results of every member equal those of its request run alone
SameAsAlone ==
    BatchCalled =>
      \A i \in 1..Len(requests) :
        (FirstEvent(task[i].log, "pattern") > 0 /\ ~Alone[requests[i]].threw) =>
          LET t == task[i]
              alone == Alone[requests[i]]
          IN  /\ t.patternMatchedIssues = alone.issues
              /\ t.aiParams[1].patternMatchedIssues = alone.issues
              /\ calculateComplianceScore(t.patternMatchedIssues)
                   = calculateComplianceScore(alone.issues)
              /\ calculateOverallSeverity(t.patternMatchedIssues) = alone.overallSeverity
              /\ t.outcome.status = "returned" =>
                   /\ t.outcome.value[1].patternMatchedIssues = alone.issues
                   /\ results.status = "resolved" =>
                        results.list[i].patternMatchedIssues = alone.issues

PatternOccurs(adCopy, pattern) ==
    \E i \in 1..(Len(adCopy) + 1) :
        Ends(pattern.tree, adCopy, i, pattern.ignoreCase) # <<>>

\* the rule matches the ad copy deterministically
RuleMatches(adCopy, rule) ==
    \/ rule.hasPattern /\ PatternOccurs(adCopy, rule.pattern)
    \/ rule.hasKeywords /\ KeywordHits(adCopy, rule) # {}

IdsOf(list) == [k \in DOMAIN list |-> list[k].id]

\* C21: checkRules emits an issue for a rule exactly when the rule matches
\* (its pattern matches the ad copy or one of its keywords is a
\* case-insensitive substring): the issues are, in rule-list order, one per
\* matching rule, so a rule with neither pattern nor keywords emits nothing
\* and two rules that match the same text each emit their own issue.
C21_IssuesAreMatchingRules ==
    (entry = "checkRules" /\ aggregate.called) =>
      /\ IdsOf(aggregate.issues)
           = IdsOf(SelectSeq(args.rules,
                             LAMBDA rule : RuleMatches(Expand(args.adCopy), rule)))
      /\ \A j \in DOMAIN args.rules :
           (~args.rules[j].hasPattern /\ ~args.rules[j].hasKeywords)
             => IssuesOfRule(aggregate.issues, args.rules[j]) = <<>>

C21_Witness ==
    /\ entry = "checkRules" /\ aggregate.called
    /\ args.adCopy = AdShouting
    /\ Len(args.rules) = 4
    /\ Len(aggregate.issues) = 2
    /\ aggregate.issues[1].id = "google-3" /\ aggregate.issues[2].id = "google-4"
    /\ aggregate.issues[1].match = <<"!", "!", "!">>
    /\ aggregate.issues[2].match = aggregate.issues[1].match

CompareCalled == entry = "compareCompliance" /\ results # NotCalled
CompareReturned == entry = "compareCompliance" /\ aggregate.called

\* C22: compareCompliance issues exactly one check per pair of a requested
\* locale and a requested platform, each with the ad copy and the industry of
\* the call, and its results are as many as |locales| * |platforms|, ordered
\* locale-major: all platforms of the first locale, then of the second.
C22_CrossProduct ==
    LET L == args.locales
        P == args.platforms
        n == Len(L) * Len(P)
        Pair(k) == Request(args.adCopy, L[((k - 1) \div Len(P)) + 1],
                           P[((k - 1) % Len(P)) + 1], args.industry, FALSE)
    IN  /\ CompareCalled =>
              /\ Len(requests) = n
              /\ \A k \in Tasks :
                   IF k <= n
                   THEN /\ task[k].req = Pair(k)
                        /\ Len(EventsOf(task[k].log, "validate")) = 1
                   ELSE task[k] = IdleTask
        /\ CompareReturned =>
              LET list == aggregate.value.results
              IN  /\ Len(list) = n
                  /\ \A a \in DOMAIN L, b \in DOMAIN P :
                       LET r == list[(a - 1) * Len(P) + b]
                       IN  /\ r.locale = L[a] /\ r.platform = P[b]
                           /\ r.adCopy = args.adCopy /\ r.industry = args.industry

C22_Witness ==
    /\ CompareReturned
    /\ args.locales = <<<<"e", "n", "-", "U", "S">>, <<"x", "x", "-", "X", "X">>>>
    /\ args.platforms = <<<<"c", "o", "n", "s", "t", "r", "u", "c", "t", "o", "r">>, <<"m", "e", "t", "a">>>>
    /\ Len(aggregate.value.results) = 4
    /\ [k \in 1..4 |-> aggregate.value.results[k].locale]
         = <<<<"e", "n", "-", "U", "S">>, <<"e", "n", "-", "U", "S">>, <<"x", "x", "-", "X", "X">>, <<"x", "x", "-", "X", "X">>>>
    /\ [k \in 1..4 |-> aggregate.value.results[k].platform]
         = <<<<"c", "o", "n", "s", "t", "r", "u", "c", "t", "o", "r">>, <<"m", "e", "t", "a">>, <<"c", "o", "n", "s", "t", "r", "u", "c", "t", "o", "r">>, <<"m", "e", "t", "a">>>>
    /\ aggregate.value.results[4].success

\* the sum of the scores of the pattern-matched issues of the results that
\* carry the value key in the field the selector picks
SumOfKey(list, keyOf, key) ==
    Sum([k \in DOMAIN list |->
            IF keyOf[k] = key
            THEN calculateComplianceScore(list[k].patternMatchedIssues) ELSE 0])

\* safest is one of the requested keys and no requested key has a larger sum
IsSafest(list, keyOf, requested, safest) ==
    /\ safest \in Range(requested)
    /\ \A key \in Range(requested) :
         SumOfKey(list, keyOf, safest) >= SumOfKey(list, keyOf, key)

\* C23: in a compareCompliance run with at least one result,
\* summary.safestLocale is a requested locale whose sum of
\* calculateComplianceScore over the pattern-matched issues of its results is
\* maximal among the requested locales, and summary.safestPlatform likewise
\* among the requested platforms; the sums are taken over the
\* pattern-matched issues alone, so the issues the AI analysis found have no
\* influence on the selection.
C23_SafestHasMaxSum ==
    (CompareReturned /\ aggregate.value.results # <<>>) =>
      LET list == aggregate.value.results
      IN  /\ IsSafest(list, [k \in DOMAIN list |-> list[k].locale],
                      args.locales, aggregate.value.summary.safestLocale)
          /\ IsSafest(list, [k \in DOMAIN list |-> list[k].platform],
                      args.platforms, aggregate.value.summary.safestPlatform)

\* the sum of the scores of the pattern-matched issues of all results
TotalScore(list) == SumOfKey(list, [k \in DOMAIN list |-> "any"], "any")

\* C24: in a compareCompliance run with at least one result,
\* summary.overallRisk is low when the average score of the pattern-matched
\* issues over all results is strictly greater than 80, medium when it is
\* strictly greater than 60 and at most 80, and high otherwise; an average
\* of exactly 80 gives medium and an average of exactly 60 gives high.
C24_RiskOfAverage ==
    (CompareReturned /\ aggregate.value.results # <<>>) =>
      LET total == TotalScore(aggregate.value.results)
          n     == Len(aggregate.value.results)
          risk  == aggregate.value.summary.overallRisk
      IN  /\ total > 80 * n => risk = "low"
          /\ (total > 60 * n /\ total <= 80 * n) => risk = "medium"
          /\ total <= 60 * n => risk = "high"
          /\ total = 80 * n => risk = "medium"
          /\ total = 60 * n => risk = "high"

C24_Witness ==
    /\ CompareReturned
    /\ Len(aggregate.value.results) = 2
    /\ ~aggregate.value.results[1].success
    /\ aggregate.value.results[2].success
    /\ TotalScore(aggregate.value.results) = 160
    /\ calculateComplianceScore(aggregate.value.results[2].patternMatchedIssues) = 60
    /\ aggregate.value.summary.overallRisk = "medium"

\* C25: for every issue list isSafeToPublish(issues, false).safe is true
\* exactly when calculateOverallSeverity(issues) is low, that is when the
\* list has no high-severity and no medium-severity issue; with
\* allowMediumRisk = true a list of two or more medium issues and no high
\* issue is safe to publish while its overall severity is high.
C25_SafeIffLowSeverity ==
    (entry = "isSafeToPublish" /\ aggregate.called) =>
      /\ ~aggregate.allowMediumRisk =>
           /\ aggregate.status.safe = (calculateOverallSeverity(issuesArg) = "low")
           /\ aggregate.status.safe = (Count("high") = 0 /\ Count("medium") = 0)
      /\ (aggregate.allowMediumRisk /\ Count("medium") >= 2 /\ Count("high") = 0) =>
           /\ aggregate.status.safe
           /\ calculateOverallSeverity(issuesArg) = "high"

C25_Witness ==
    /\ entry = "isSafeToPublish" /\ aggregate.called
    /\ ~aggregate.allowMediumRisk
    /\ Count("high") = 0 /\ Count("medium") = 1 /\ Count("low") = 2
    /\ ~aggregate.status.safe
    /\ calculateOverallSeverity(issuesArg) = "medium"

\* the scores of the results with 100 for the result of a failed check
ScoresWithFailedAtMaximum(list) ==
    [k \in DOMAIN list |->
        IF list[k].success THEN calculateComplianceScore(list[k].patternMatchedIssues)
        ELSE 100]

\* C26: in compareCompliance a combination whose check failed is
\* represented by a result with an empty pattern-issue list, which counts
\* with the maximum score 100 in its locale's sum, its platform's sum and the
\* average; a run with at least one combination in which every member check
\* fails (an empty ad copy, or every AI call failing) does not raise: the
\* batch resolves with one result per combination and the run reports
\* summary.overallRisk = low although the aiAnalysis.overallRisk of every
\* result is high.
C26_FailedCheckScoresMaximum ==
    /\ (entry = "compareCompliance" /\ results.status = "resolved") =>
          /\ \A k \in DOMAIN results.list :
               task[k].outcome.status = "thrown" =>
                 /\ ~results.list[k].success
                 /\ results.list[k].patternMatchedIssues = <<>>
                 /\ results.list[k].aiAnalysis.overallRisk = "high"
          /\ Len(results.list) = Len(requests)
    /\ CompareReturned =>
          LET list == aggregate.value.results
          IN  /\ aggregate.value
                   = CompareSummary(list, ScoresWithFailedAtMaximum(list))
              /\ (list # <<>> /\ \A k \in DOMAIN list : ~list[k].success) =>
                    aggregate.value.summary.overallRisk = "low"

C26_Witness ==
    /\ CompareReturned
    /\ Len(aggregate.value.results) = 2
    /\ \A k \in 1..2 :
         /\ Len(EventsOf(task[k].log, "fail")) >= 1
         /\ ~aggregate.value.results[k].success
         /\ aggregate.value.results[k].aiAnalysis.overallRisk = "high"
    /\ aggregate.value.summary.overallRisk = "low"

\* C30: compareCompliance called with an empty locales list or an empty
\* platforms list performs no check and does not raise: it returns an empty
\* results list with summary.safestLocale = "unknown",
\* summary.safestPlatform = "unknown" and summary.overallRisk = high.
C30_EmptyLists ==
    (entry = "compareCompliance" /\ (args.locales = <<>> \/ args.platforms = <<>>)) =>
      /\ \A k \in Tasks : task[k] = IdleTask
      /\ CompareCalled => results = [status |-> "resolved", list |-> <<>>]
      /\ CompareReturned =>
           /\ aggregate.value.results = <<>>
           /\ aggregate.value.summary
                = [safestLocale |-> <<"u", "n", "k", "n", "o", "w", "n">>, safestPlatform |-> <<"u", "n", "k", "n", "o", "w", "n">>,
                   overallRisk |-> "high"]

C30_Witness ==
    /\ CompareReturned
    /\ args.locales = <<<<"e", "n", "-", "U", "S">>, <<"x", "x", "-", "X", "X">>>>
    /\ args.platforms = <<>>
    /\ args.adCopy = AdGuaranteed
    /\ aggregate.value.results = <<>>
    /\ aggregate.value.summary.overallRisk = "high"
    /\ aggregate.value.summary.safestLocale = <<"u", "n", "k", "n", "o", "w", "n">>

\* C27: checkCompliance validates the request before any other work: on an
\* invalid request neither the pattern matcher nor the AI model is invoked
\* (no model call, no backoff wait) and the call fails with the validation
\* error, which isRetryableError classifies as not retryable.
C27_ValidationFirst ==
    \A i \in Tasks :
      ( /\ entry \in {"checkCompliance", "batchCheckCompliance"}
        /\ task[i].pc # "start" ) =>
        LET t == task[i]
        IN  /\ t.log[1].ev = "validate"
            /\ Violations(t.req) # {} =>
                 /\ t.log = <<Event("validate", Undefined, 0)>>
                 /\ Calls(t) = 0
                 /\ Waits(t) = <<>>
                 /\ t.patternMatchedIssues = <<>>
                 /\ t.aiParams = <<>>
                 /\ t.pc = "done"
                 /\ t.outcome.status = "thrown"
                 /\ t.outcome.error
                      = handleValidationError(validateComplianceRequest(t.req),
                                              <<"c", "o", "m", "p", "l", "i", "a", "n", "c", "e", " ", "c", "h", "e", "c", "k", " ", "r", "e", "q", "u", "e", "s", "t">>)
                 /\ ~isRetryableError(t.outcome.error)

C27_Witness ==
    /\ entry = "checkCompliance"
    /\ task[1].req.adCopy = AdTooLong
    /\ task[1].req.platform = <<"g", "o", "o", "g", "l", "e">>
    /\ task[1].req.locale = <<"e", "n", "-", "U", "S">>
    /\ task[1].req.industry = <<"f", "i", "n", "a", "n", "c", "e">>
    /\ task[1].pc = "done"
    /\ task[1].log = <<Event("validate", Undefined, 0)>>
    /\ task[1].outcome.status = "thrown"
    /\ ~isRetryableError(task[1].outcome.error)

\* the direct call has been made with maxRetries >= 1
RetryRunning ==
    entry = "retryWithBackoff" /\ args.maxRetries >= 1 /\ task[1].pc # "start"

\* the invocations of fn that have not settled
InFlight(t) == Calls(t) - Len(EventsOf(t.log, "ok")) - Len(EventsOf(t.log, "fail"))

\* at least one and at most maxRetries invocations, at most one of them in
\* flight, and nothing after an invocation that succeeded
OneInvocationAtATime ==
    RetryRunning =>
      LET t == task[1]
      IN  /\ Calls(t) >= 1 /\ Calls(t) <= args.maxRetries
          /\ InFlight(t) = (IF t.pc = "fn" THEN 1 ELSE 0)
          /\ \A k \in DOMAIN t.log :
               /\ (t.log[k].ev = "call" /\ k < Len(t.log))
                     => t.log[k + 1].ev \in {"ok", "fail"}
               /\ t.log[k].ev = "ok" =>
                     /\ k = Len(t.log)
                     /\ t.pc = "done"
                     /\ t.outcome.status = "returned"

\* the call returns the value its invocation of fn resolves with
ReturnsResolvedValue ==
    \A value \in Reports :
      (entry = "retryWithBackoff" /\ FnResolve(1, value)) =>
        /\ task'[1].pc = "done"
        /\ task'[1].outcome = [status |-> "returned", value |-> <<value>>,
                               error |-> Undefined]

\* C28: for maxRetries >= 1 retryWithBackoff invokes fn at least once and at
\* most maxRetries times, never has two invocations of fn in flight, returns
\* the value of the first invocation that succeeds and makes no invocation
\* and no wait after it; when every invocation of fn settles (and the
\* backoff timers fire) the call itself settles.
C28_BoundedSequentialRetry ==
    /\ []OneInvocationAtATime
    /\ [][ReturnsResolvedValue]_vars
    /\ (RetryRunning ~> task[1].pc = "done")

C28_Witness ==
    /\ DirectDone
    /\ args.maxRetries = 3
    /\ [k \in DOMAIN task[1].log |-> task[1].log[k].ev]
         = <<"call", "fail", "wait", "call", "ok">>
    /\ task[1].outcome.status = "returned"

\* the kinds of the events of a log, in order
KindsOf(log) == [k \in DOMAIN log |-> log[k].ev]

\* C29: one call of analyzeComplianceWithAI invokes the model at most 2
\* times: after a retryable first failure it waits 1000 ms and invokes the
\* model once more; a non-retryable first failure and any second failure,
\* retryable or not, end the call with the generation-failure error.
C29_TwoModelCallsAtMost ==
    \A i \in Tasks :
      task[i].caller = "analyze" =>
        LET t == task[i]
        IN  /\ Calls(t) <= 2
            /\ Waits(t) \in { <<>>, <<1000>> }
            /\ \A k \in DOMAIN t.log :
                 t.log[k].ev = "fail" =>
                   IF FailuresUpTo(t.log, k) = 1 /\ isRetryableError(t.log[k].error)
                   THEN /\ k + 1 <= Len(t.log)
                        /\ t.log[k + 1] = Event("wait", Undefined, 1000)
                        /\ IF k + 1 = Len(t.log) THEN t.pc = "sleep"
                           ELSE t.log[k + 2].ev = "call"
                   ELSE /\ SubSeq(KindsOf(t.log), k + 1, Len(t.log)) = <<"logError">>
                        /\ t.pc = "done"
                        /\ t.outcome.status = "thrown"
                        /\ t.outcome.error
                             = handleGenerationError(
                                   t.log[k].error, StageName(t.req.platform, t.req.locale))
                        /\ t.outcome.error.code = errorMessages("GENERATION_FAILED")

C29_Witness ==
    /\ entry = "checkCompliance"
    /\ KindsOf(task[1].log)
         = <<"validate", "pattern", "ai", "call", "fail", "wait", "call", "fail", "logError">>
    /\ isRetryableError(task[1].log[8].error)
    /\ task[1].log[6].ms = 1000
    /\ task[1].outcome.status = "thrown"

====
